---- MODULE Spec2Model ----
(***************************************************************************)
(* A model of forage's parser (src/src/forage/parser.py): the comment      *)
(* filter, the identifier resolver and the four record extractors.         *)
(*                                                                         *)
(* Text is modelled as a sequence of one-character strings, so that        *)
(* length, slicing, searching and stripping are computed as the code       *)
(* computes them.  Comment objects live in a heap (object id -> fields),   *)
(* because filter_comments assigns to comment.replies.                     *)
(***************************************************************************)
EXTENDS Integers, Sequences, FiniteSets, TLC

\* ------------------------------------------------------------------ bounds
\* Most Comment objects in one comment tree.
MaxComments == 3
\* Largest reactions.total of a comment of the tree.
MaxTotal == 2
\* Largest min_reactions / top_n threshold tried.
MaxThreshold == 2
\* Most elements in a node of the modern layout.
MaxElements == 2
\* Most extractions in a scrape, both runs together.
MaxScraped == 2
\* datetime.now(), parser.py:31, in minutes since datetime.min (the first
\* minute of year 1): noon of a day late in 2026.
NOW == 1065486960


VARIABLES
    heap,           \* Comment objects: object id -> [total, replies]
    heap0,          \* the heap as it was constructed (history)
    comments,       \* the list handed to filter_comments
    min_reactions,  \* thresholds of the call
    top_n,
    filtered,       \* the list the last call returned
    heap1,          \* the heap after the first call (history)
    filtered1,      \* the list the first call returned (history)
    pc,             \* "built" | "once" | "twice" | "idle"
    url,            \* the argument of extract_post_id
    url_id,         \* what extract_post_id(url) did: [tag, val]
    upc,            \* "url" | "resolved" | "idle"
    seed,           \* the str-hash salt of the running process (0: no process)
    extractor,      \* the extractor called, or "none"
    target,         \* the node handed to it
    failing,        \* k > 0: the k-th call on the document tree raised
    addr,           \* id(target)
    result,         \* what the extractor returned
    epc,            \* "ready" | "done" | "idle"
    run,            \* the run of the program: 1, or 2 once restarted
    scraped,        \* the extractions of the scrape so far, both runs
    input,          \* the text handed to parse_reactions_text / parse_timestamp
    outcome,        \* what that call did: [fn, raised, reactions, time]
    db,             \* the SQLite file: the rows of its three tables
    exports         \* the results exported to it so far, oldest first (history)

filterVars == <<heap, heap0, comments, min_reactions, top_n, filtered, heap1, filtered1, pc>>

urlVars == <<url, url_id, upc>>

extractVars == <<extractor, target, failing, addr, result, epc>>

scrapeVars == <<run, scraped>>

textVars == <<input, outcome>>

dbVars == <<db, exports>>

vars == <<filterVars, urlVars, seed, extractVars, scrapeVars, textVars, dbVars>>

\* ------------------------------------------------------- sequence helpers
Take(s, n) == SubSeq(s, 1, IF n < Len(s) THEN n ELSE Len(s))

Drop(s, n) == SubSeq(s, n + 1, Len(s))

Indices(n) == [i \in 1..n |-> i]

\* The first place a sequence of booleans holds TRUE, 0 when it holds none.
FirstTrue(flags) ==
    IF \E i \in 1..Len(flags): flags[i]
    THEN CHOOSE i \in 1..Len(flags): flags[i] /\ \A j \in 1..(i - 1): ~flags[j]
    ELSE 0

\* ------------------------------------------------------------------- text
Digits == {"0", "1", "2", "3", "4", "5", "6", "7", "8", "9"}

LowerCase ==
    {"a", "b", "c", "d", "e", "f", "g", "h", "i", "j", "k", "l", "m",
     "n", "o", "p", "q", "r", "s", "t", "u", "v", "w", "x", "y", "z"}

UpperCase ==
    {"A", "B", "C", "D", "E", "F", "G", "H", "I", "J", "K", "L", "M",
     "N", "O", "P", "Q", "R", "S", "T", "U", "V", "W", "X", "Y", "Z"}

\* [a-zA-Z0-9]
Alnum == LowerCase \cup UpperCase \cup Digits

\* s[i:i+len(pat)] == pat, 1-based
MatchAt(s, i, pat) ==
    /\ i >= 1
    /\ i + Len(pat) - 1 <= Len(s)
    /\ SubSeq(s, i, i + Len(pat) - 1) = pat

\* s.find(pat) + 1: the first place pat occurs in s, 0 when it does not
Find(s, pat) ==
    IF \E i \in 1..Len(s): MatchAt(s, i, pat)
    THEN CHOOSE i \in 1..Len(s):
            MatchAt(s, i, pat) /\ \A j \in 1..(i - 1): ~MatchAt(s, j, pat)
    ELSE 0

\* pat in s
Contains(s, pat) == pat = <<>> \/ Find(s, pat) # 0

\* The first place a character of set C occurs in s, 0 when none does.
FindChar(s, C) ==
    IF \E i \in 1..Len(s): s[i] \in C
    THEN CHOOSE i \in 1..Len(s): s[i] \in C /\ \A j \in 1..(i - 1): s[j] \notin C
    ELSE 0

\* The end of the longest run of characters of C that starts at i
\* (i - 1 when s[i] is not in C): a greedy [C]* from i.
RunEnd(s, i, C) ==
    IF \E j \in i..Len(s): s[j] \notin C
    THEN (CHOOSE j \in i..Len(s): s[j] \notin C /\ \A k \in i..(j - 1): s[k] \in C) - 1
    ELSE Len(s)

\* s.split(c) for a one-character separator
RECURSIVE Split(_, _)
Split(s, c) ==
    LET i == FindChar(s, {c})
    IN  IF i = 0 THEN <<s>> ELSE <<Take(s, i - 1)>> \o Split(Drop(s, i), c)

\* ------------------------------------------------------ text, continued
\* What str.strip() removes (of the characters of the model's texts).
Whitespace == {" ", "\n", "\t"}

LOWER ==
    <<"a", "b", "c", "d", "e", "f", "g", "h", "i", "j", "k", "l", "m",
      "n", "o", "p", "q", "r", "s", "t", "u", "v", "w", "x", "y", "z">>

UPPER ==
    <<"A", "B", "C", "D", "E", "F", "G", "H", "I", "J", "K", "L", "M",
      "N", "O", "P", "Q", "R", "S", "T", "U", "V", "W", "X", "Y", "Z">>

DIGITS == <<"0", "1", "2", "3", "4", "5", "6", "7", "8", "9">>

\* The characters "…", "·" and U+FEFF, one sequence element each.
ELLIPSIS == "U+2026"

MIDDLE_DOT == "U+00B7"

BOM == "U+FEFF"

IndexIn(seq, c) == CHOOSE i \in 1..Len(seq): seq[i] = c

\* The first place a character outside C occurs in s, 0 when none does.
FindNotIn(s, C) ==
    IF \E i \in 1..Len(s): s[i] \notin C
    THEN CHOOSE i \in 1..Len(s): s[i] \notin C /\ \A j \in 1..(i - 1): s[j] \in C
    ELSE 0

\* The last place a character outside C occurs in s, 0 when none does.
FindLastNotIn(s, C) ==
    IF \E i \in 1..Len(s): s[i] \notin C
    THEN CHOOSE i \in 1..Len(s): s[i] \notin C /\ \A j \in (i + 1)..Len(s): s[j] \in C
    ELSE 0

\* s.lstrip(), s.rstrip(), s.strip()
LStrip(s) == IF FindNotIn(s, Whitespace) = 0 THEN <<>> ELSE Drop(s, FindNotIn(s, Whitespace) - 1)

RStrip(s) == Take(s, FindLastNotIn(s, Whitespace))

Strip(s) == RStrip(LStrip(s))

\* s.lower()
Lower(s) ==
    [i \in 1..Len(s) |-> IF s[i] \in UpperCase THEN LOWER[IndexIn(UPPER, s[i])] ELSE s[i]]

StartsWith(s, pat) == MatchAt(s, 1, pat)

EndsWith(s, pat) == MatchAt(s, Len(s) - Len(pat) + 1, pat)

\* sep.join(parts)
RECURSIVE Join(_, _)
Join(parts, sep) ==
    IF parts = <<>> THEN <<>>
    ELSE IF Len(parts) = 1 THEN parts[1]
    ELSE parts[1] \o sep \o Join(Tail(parts), sep)

\* s.split(sep)[0] for a separator of several characters
Before(s, sep) == IF Find(s, sep) = 0 THEN s ELSE Take(s, Find(s, sep) - 1)

\* [f(x) for x in seq]
Map(seq, f(_)) == [i \in 1..Len(seq) |-> f(seq[i])]

\* x in list
InList(x, list) == \E i \in 1..Len(list): list[i] = x

\* int(digits)
RECURSIVE ToInt(_)
ToInt(ds) ==
    IF ds = <<>> THEN 0
    ELSE 10 * ToInt(Take(ds, Len(ds) - 1)) + (IndexIn(DIGITS, ds[Len(ds)]) - 1)

\* str(n) for n >= 0
RECURSIVE Decimal(_)
Decimal(n) ==
    IF n < 10 THEN <<DIGITS[n + 1]>>
    ELSE Decimal(n \div 10) \o <<DIGITS[(n % 10) + 1]>>

\* re.match(r"^\d+[hdwm]$", text) on stripped text
IsBareRelativeToken(t) ==
    /\ Len(t) >= 2
    /\ \A i \in 1..(Len(t) - 1): t[i] \in Digits
    /\ t[Len(t)] \in {"h", "d", "w", "m"}

\* re.search(r"(\d+)", text): group(1) of the first match
FirstDigitRun(t) ==
    LET i == FindChar(t, Digits)
    IN  IF i = 0 THEN <<>> ELSE SubSeq(t, i, RunEnd(t, i, Digits))

\* ------------------------------------------------------------ the filter
\* The slip sorted(...)[::-1] of an ascending sort: equal totals come out in
\* reverse order.
RECURSIVE InsertDescTiesReversed(_, _, _)
InsertDescTiesReversed(h, sorted, c) ==
    IF sorted = <<>> THEN <<c>>
    ELSE IF h[Head(sorted)].total > h[c].total
         THEN <<Head(sorted)>> \o InsertDescTiesReversed(h, Tail(sorted), c)
         ELSE <<c>> \o sorted

\* sorted(filtered, key=lambda c: c.reactions.total, reverse=True): Python's
\* sort is stable, also with reverse=True, so a comment goes after every
\* comment already placed whose total is at least its own.
RECURSIVE InsertDesc(_, _, _)
InsertDesc(h, sorted, c) ==
    IF sorted = <<>> THEN <<c>>
    ELSE IF h[Head(sorted)].total >= h[c].total
         THEN <<Head(sorted)>> \o InsertDesc(h, Tail(sorted), c)
         ELSE <<c>> \o sorted

RECURSIVE SortedByTotalDescFrom(_, _, _)
SortedByTotalDescFrom(h, acc, rest) ==
    IF rest = <<>> THEN acc
    ELSE SortedByTotalDescFrom(h, InsertDesc(h, acc, Head(rest)), Tail(rest))

SortedByTotalDesc(h, list) == SortedByTotalDescFrom(h, <<>>, list)

\* The slip of > for >=: a comment with exactly min_reactions is dropped.
ThresholdStrict(h, list, mn) ==
    IF mn > 0 THEN SelectSeq(list, LAMBDA c: h[c].total > mn) ELSE list

\* parser.py:595-596
Threshold(h, list, mn) ==
    IF mn > 0 THEN SelectSeq(list, LAMBDA c: h[c].total >= mn) ELSE list

\* The slips of the top-N step: a cut one too long, and top_n >= 0.
TopNOffByOne(h, list, tn) ==
    IF tn > 0 THEN Take(SortedByTotalDesc(h, list), tn + 1) ELSE list

TopNZeroCuts(h, list, tn) ==
    IF tn >= 0 THEN Take(SortedByTotalDesc(h, list), tn) ELSE list

\* parser.py:598-601
TopN(h, list, tn) ==
    IF tn > 0 THEN Take(SortedByTotalDesc(h, list), tn) ELSE list

\* parser.py:593-611.  The call returns the list and, through the
\* assignments to comment.replies, a changed heap.
RECURSIVE filter_comments(_, _, _, _)
RECURSIVE FilterReplies(_, _, _, _, _)
filter_comments(h, list, mn, tn) ==
    LET kept == TopN(h, Threshold(h, list, mn), tn)
    IN  [heap |-> FilterReplies(h, kept, 1, mn, tn), ret |-> kept]

\* The slip of recursing with the default thresholds: the replies are
\* returned as they are.
RECURSIVE FilterRepliesDefaults(_, _, _, _, _)
FilterRepliesDefaults(h, kept, i, mn, tn) ==
    IF i > Len(kept) THEN h
    ELSE LET c == kept[i]
         IN  IF h[c].replies # <<>>
             THEN LET r == filter_comments(h, h[c].replies, 0, 0)
                  IN  FilterRepliesDefaults([r.heap EXCEPT ![c].replies = r.ret],
                                            kept, i + 1, mn, tn)
             ELSE FilterRepliesDefaults(h, kept, i + 1, mn, tn)

\* parser.py:603-609: for comment in filtered: if comment.replies: ...
FilterReplies(h, kept, i, mn, tn) ==
    IF i > Len(kept) THEN h
    ELSE LET c == kept[i]
         IN  IF h[c].replies # <<>>
             THEN LET r == filter_comments(h, h[c].replies, mn, tn)
                  IN  FilterReplies([r.heap EXCEPT ![c].replies = r.ret],
                                    kept, i + 1, mn, tn)
             ELSE FilterReplies(h, kept, i + 1, mn, tn)

\* The replies of comment i of a forest given by a parent array, in
\* document order (object ids are handed out in document order).
Children(parent, n, i) == SelectSeq(Indices(n), LAMBDA j: parent[j] = i)


\* ---------------------------------------------------- the identifier resolver
STORY_FBID == <<"s", "t", "o", "r", "y", "_", "f", "b", "i", "d">>

POSTS_SLASH == <<"/", "p", "o", "s", "t", "s", "/">>

PFBID == <<"p", "f", "b", "i", "d">>

\* What a call did: returned None, returned a string, or raised.
RetNone == [tag |-> "none", val |-> <<>>]

RetStr(v) == [tag |-> "str", val |-> v]

Raised == [tag |-> "raise", val |-> <<>>]

\* urllib.parse.urlsplit, scheme step: the text before the first ":" is a
\* scheme when it starts with a letter and holds scheme characters only.
AfterScheme(u) ==
    LET i == FindChar(u, {":"})
    IN  IF /\ i > 1
           /\ u[1] \in LowerCase \cup UpperCase
           /\ \A k \in 1..(i - 1): u[k] \in Alnum \cup {"+", "-", "."}
        THEN Drop(u, i)
        ELSE u

\* s up to the first character of C, all of s when it holds none.
UpTo(s, C) ==
    LET d == FindChar(s, C)
    IN  IF d = 0 THEN s ELSE Take(s, d - 1)

\* s from the first character of C on, nothing when it holds none.
From(s, C) ==
    LET d == FindChar(s, C)
    IN  IF d = 0 THEN <<>> ELSE Drop(s, d - 1)

\* urllib.parse._splitnetloc: the network location is what follows a leading
\* "//" up to the first of / ? #.
Netloc(rest) ==
    IF Take(rest, 2) = <<"/", "/">> THEN UpTo(Drop(rest, 2), {"/", "?", "#"}) ELSE <<>>

AfterNetloc(rest) ==
    IF Take(rest, 2) = <<"/", "/">> THEN From(Drop(rest, 2), {"/", "?", "#"}) ELSE rest

\* One square bracket without the other.
OneBracket(netloc) ==
    (\E i \in 1..Len(netloc): netloc[i] = "[") # (\E i \in 1..Len(netloc): netloc[i] = "]")

\* urllib.parse.urlsplit after the scheme step: the fragment is cut at the
\* first "#", then the query at the first "?".
SplitUrl(rest) ==
    [raises |-> OneBracket(Netloc(rest)),
     query |-> Drop(From(UpTo(AfterNetloc(rest), {"#"}), {"?"}), 1)]

\* urllib.parse.urlparse(url), parser.py:77: the query of the URL, and
\* whether the call raises ValueError("Invalid IPv6 URL"), which it does when
\* the network location holds one square bracket without the other.
urlparse(u) == SplitUrl(AfterScheme(u))

\* urllib.parse.unquote(s.replace("+", " ")) on text without "%" escapes
UnquotePlus(s) == [i \in 1..Len(s) |-> IF s[i] = "+" THEN " " ELSE s[i]]

\* urllib.parse.parse_qs(query), parser.py:80, as the name/value pairs in
\* their order: a field without "=" or with a blank value is dropped.
RECURSIVE QueryPairs(_)
QueryPairs(fields) ==
    IF fields = <<>> THEN <<>>
    ELSE LET f == Head(fields)
             e == FindChar(f, {"="})
         IN  (IF e = 0 \/ e = Len(f) THEN <<>>
              ELSE <<[name |-> UnquotePlus(Take(f, e - 1)),
                      value |-> UnquotePlus(Drop(f, e))]>>)
             \o QueryPairs(Tail(fields))

parse_qs(query) == QueryPairs(Split(query, "&"))

\* params.get("story_fbid", [None])[0], parser.py:81
FirstValue(pairs, name) ==
    LET named == SelectSeq(pairs, LAMBDA p: p.name = name)
    IN  IF named = <<>> THEN RetNone ELSE RetStr(named[1].value)

\* re.search(r"/posts/(\d+)", url), parser.py:85: group(1) of the first match
SearchPostsDigits(u) ==
    LET hit(i) == MatchAt(u, i, POSTS_SLASH) /\ i + 7 <= Len(u)
                    /\ u[i + 7] \in Digits
    IN  IF \E i \in 1..Len(u): hit(i)
        THEN LET i == CHOOSE i \in 1..Len(u): hit(i) /\ \A j \in 1..(i - 1): ~hit(j)
             IN  RetStr(SubSeq(u, i + 7, RunEnd(u, i + 7, Digits)))
        ELSE RetNone

\* re.search(r"pfbid[a-zA-Z0-9]+", url), parser.py:89: group(0) of the first match
SearchPfbid(u) ==
    LET hit(i) == MatchAt(u, i, PFBID) /\ i + 5 <= Len(u)
                    /\ u[i + 5] \in Alnum
    IN  IF \E i \in 1..Len(u): hit(i)
        THEN LET i == CHOOSE i \in 1..Len(u): hit(i) /\ \A j \in 1..(i - 1): ~hit(j)
             IN  RetStr(SubSeq(u, i, RunEnd(u, i + 5, Alnum)))
        ELSE RetNone

\* parser.py:79-83: the first value of the story_fbid parameter
StoryFbid(u, query) ==
    IF Contains(u, STORY_FBID) THEN FirstValue(parse_qs(query), STORY_FBID) ELSE RetNone

\* parser.py:82-92: the first of the three that found something
FirstId(story_fbid, posts, pfbid) ==
    IF story_fbid.tag = "str" /\ story_fbid.val # <<>> THEN story_fbid
    ELSE IF posts.tag = "str" THEN posts
    ELSE IF pfbid.tag = "str" THEN pfbid
    ELSE RetNone

\* parser.py:77-93, parsed = urlparse(url)
IdFromParsed(u, parsed) ==
    IF parsed.raises THEN Raised
    ELSE FirstId(StoryFbid(u, parsed.query), SearchPostsDigits(u), SearchPfbid(u))

\* parser.py:72-93
extract_post_id(u) ==
    IF u = <<>> THEN RetNone ELSE IdFromParsed(u, urlparse(u))

\* ------------------------------------------------------ the record extractors
UNKNOWN == <<"U", "n", "k", "n", "o", "w", "n">>

IS_WITH == <<" ", "i", "s", " ", "w", "i", "t", "h", " ">>

SHARED == <<" ", "s", "h", "a", "r", "e", "d", " ">>

UPDATED == <<" ", "u", "p", "d", "a", "t", "e", "d", " ">>

PEOPLE_YOU_MAY_KNOW == <<"P", "e", "o", "p", "l", "e", " ", "y", "o", "u", " ", "m", "a", "y", " ", "k", "n", "o", "w">>

SUGGESTED_FOR_YOU == <<"S", "u", "g", "g", "e", "s", "t", "e", "d", " ", "f", "o", "r", " ", "y", "o", "u">>

GROUPS_YOU_MIGHT_LIKE == <<"G", "r", "o", "u", "p", "s", " ", "y", "o", "u", " ", "m", "i", "g", "h", "t", " ", "l", "i", "k", "e">>

ONLINE_STATUS_INDICATOR == <<"O", "n", "l", "i", "n", "e", " ", "s", "t", "a", "t", "u", "s", " ", "i", "n", "d", "i", "c", "a", "t", "o", "r">>

ACTIVE == <<"A", "c", "t", "i", "v", "e">>

SPONSORED == <<"S", "p", "o", "n", "s", "o", "r", "e", "d">>

LIKE == <<"L", "i", "k", "e">>

COMMENT == <<"C", "o", "m", "m", "e", "n", "t">>

SHARE == <<"S", "h", "a", "r", "e">>

REPLY == <<"R", "e", "p", "l", "y">>

SEE_MORE == <<"S", "e", "e", " ", "m", "o", "r", "e">>

VIEW_REPLIES == <<"V", "i", "e", "w", " ", "r", "e", "p", "l", "i", "e", "s">>

FACEBOOK_COM == <<"f", "a", "c", "e", "b", "o", "o", "k", ".", "c", "o", "m", "/">>

GROUPS == <<"/", "g", "r", "o", "u", "p", "s", "/">>

PLUS_1 == <<"+", "1">>

PLUS_2 == <<"+", "2">>

PLUS_3 == <<"+", "3">>

REACTION == <<"r", "e", "a", "c", "t", "i", "o", "n">>

LIKE_LOWER == <<"l", "i", "k", "e">>

COMMENT_LOWER == <<"c", "o", "m", "m", "e", "n", "t">>

ALL_REACTIONS == <<"A", "l", "l", " ", "r", "e", "a", "c", "t", "i", "o", "n", "s">>

OTHERS == <<"o", "t", "h", "e", "r", "s">>

POST_PREFIX == <<"p", "o", "s", "t", "_">>

COMMENT_PREFIX == <<"c", "o", "m", "m", "e", "n", "t", "_">>

STORY_QUERY == <<"?", "s", "t", "o", "r", "y", "_", "f", "b", "i", "d">>

MIN == <<"m", "i", "n">>

HR == <<"h", "r">>

JUST_NOW == <<"j", "u", "s", "t", " ", "n", "o", "w">>

YESTERDAY == <<"y", "e", "s", "t", "e", "r", "d", "a", "y">>

\* An optional string: what get_attribute returns (None or a string).
NoAttr == [has |-> FALSE, val |-> <<>>]

Attr(v) == [has |-> TRUE, val |-> v]

\* value or ""
OrEmpty(a) == IF a.has THEN a.val ELSE <<>>

\* What an extractor returns when it returns None.
NoRecord == [tag |-> "none"]

\* hash(s) % 10**9, parser.py:267: CPython salts str hashes with a value drawn
\* once per process, so the hash is a function of the process's salt and the
\* text; the model folds the text's characters into the salt.  hash("") is 0.
CharCode(c) ==
    IF c \in Digits THEN 47 + IndexIn(DIGITS, c)
    ELSE IF c \in LowerCase THEN 96 + IndexIn(LOWER, c)
    ELSE IF c \in UpperCase THEN 64 + IndexIn(UPPER, c)
    ELSE IF c = " " THEN 32
    ELSE IF c = "\n" THEN 10
    ELSE IF c = "!" THEN 33
    ELSE 63

\* The characters of t folded into h, left to right: h := (31 h + c) mod
\* 1000003 for each character c.
SaltedFold(h, t) ==
    LET fold[n \in 0..Len(t)] ==
            IF n = 0 THEN h ELSE (fold[n - 1] * 31 + CharCode(t[n])) % 1000003
    IN  fold[Len(t)]

HashMod(salt, t) ==
    IF t = <<>> THEN 0 ELSE SaltedFold(salt, t) % 1000000000

\* ---- parse_timestamp, parser.py:15-69.  Times are minutes; a result is an
\* optional time.
NoTime == [has |-> FALSE, val |-> 0, raises |-> FALSE]

Time(v) == [has |-> TRUE, val |-> v, raises |-> FALSE]

\* The call raised OverflowError.
Overflow == [has |-> FALSE, val |-> 0, raises |-> TRUE]

\* now - timedelta(<unit>=n), parser.py:34-39, unit in minutes: the
\* subtraction raises OverflowError ("date value out of range") when the
\* result would lie before datetime.min, and timedelta itself raises it for
\* the still larger n it cannot hold.
Ago(now, n, unit) ==
    IF n > now \div unit THEN Overflow ELSE Time(now - n * unit)

\* parser.py:51-67: the strptime formats.  No text of the model's nodes is
\* in one of the six formats, so every strptime call raises ValueError and
\* the loop falls through.
parse_absolute(t, now) == NoTime

\* parser.py:34-67 on the stripped text: the relative patterns in their
\* order, then the absolute formats.
ParseStripped(t, digits, unit, now) ==
    IF digits # <<>> /\ unit = <<"m">> THEN Ago(now, ToInt(digits), 1)
    ELSE IF digits # <<>> /\ unit = <<"h">> THEN Ago(now, ToInt(digits), 60)
    ELSE IF digits # <<>> /\ unit = <<"d">> THEN Ago(now, ToInt(digits), 1440)
    ELSE IF digits # <<>> /\ unit = <<"w">> THEN Ago(now, ToInt(digits), 10080)
    ELSE IF digits # <<>> /\ StartsWith(unit, MIN) THEN Ago(now, ToInt(digits), 1)
    ELSE IF digits # <<>> /\ StartsWith(unit, HR) THEN Ago(now, ToInt(digits), 60)
    ELSE IF StartsWith(Lower(t), JUST_NOW) THEN Time(now)
    ELSE IF StartsWith(Lower(t), YESTERDAY) THEN Ago(now, 1, 1440)
    ELSE parse_absolute(t, now)

\* The leading digits of t: group(1) of r"(\d+)..." matched at the start.
LeadingDigits(t) == Take(t, RunEnd(t, 1, Digits))

\* What follows the leading digits and the whitespace after them, lowered.
UnitAfterDigits(t) == Lower(LStrip(Drop(t, RunEnd(t, 1, Digits))))

\* parser.py:15-69
parse_timestamp(text, now) ==
    IF text = <<>> THEN NoTime
    ELSE ParseStripped(Strip(text), LeadingDigits(Strip(text)),
                       UnitAfterDigits(Strip(text)), now)

\* The slip of searching the text as it came, commas and all.
ParseReactionsKeepsCommas(text) ==
    IF text = <<>> THEN 0 ELSE ToInt(FirstDigitRun(text))

\* parser.py:96-111: Reactions.total
parse_reactions_text(text) ==
    IF text = <<>> THEN 0
    ELSE ToInt(FirstDigitRun(SelectSeq(text, LAMBDA c: c # ",")))

\* Reactions(total=total), parser.py:111: the per-category counts (the
\* fields exporter.py:173-179 reads) keep their default, zero.
Reactions(total) ==
    [total |-> total, like |-> 0, love |-> 0, haha |-> 0, wow |-> 0, sad |-> 0,
     angry |-> 0]

\* ---- the document tree.  A node is the sequence of its elements in
\* document order; an element has a tag, a text, and the attributes the
\* extractors ask for.  bold: the text of a link is inside a <strong>.
El(tag, text, href, role, dir, aria, bold) ==
    [tag |-> tag, text |-> text, href |-> href, role |-> role, dir |-> dir,
     aria |-> aria, bold |-> bold]

\* element.inner_text(): the texts of the elements, one line each
InnerText(node) ==
    Join(SelectSeq(Map(node, LAMBDA e: e.text), LAMBDA t: t # <<>>), <<"\n">>)

\* query_selector_all(selector): the elements a selector matches
Select(node, Test(_)) == SelectSeq(node, Test)

IsStrong(e) == e.tag = "strong" \/ (e.tag = "a" /\ e.bold)

IsRoleLink(e) == e.tag = "a" /\ e.role

IsDirAutoDiv(e) == e.tag = "div" /\ e.dir

\* Links to /posts/ only.
IsPermalinkPostsOnly(e) ==
    e.tag = "a" /\ e.href.has /\ Contains(e.href.val, POSTS_SLASH)

\* a[href*="/posts/"], a[href*="?story_fbid"]
IsPermalink(e) ==
    e.tag = "a" /\ e.href.has
        /\ (Contains(e.href.val, POSTS_SLASH) \/ Contains(e.href.val, STORY_QUERY))

IsHrefLink(e) == e.tag = "a" /\ e.href.has

IsReactionLabelled(e) ==
    e.aria.has /\ (Contains(e.aria.val, REACTION) \/ Contains(e.aria.val, LIKE_LOWER))

IsCommentLabelled(e) ==
    e.aria.has /\ (Contains(e.aria.val, COMMENT_LOWER) \/ Contains(e.aria.val, COMMENT))

\* [line.strip() for line in all_text.split("\n") if line.strip()]
LinesOf(all_text) ==
    SelectSeq(Map(Split(all_text, "\n"), Strip), LAMBDA l: l # <<>>)

\* ---- parse_modern_post, parser.py:114-327.  Each step also counts the
\* calls it makes on the document tree (inner_text, query_selector,
\* query_selector_all, get_attribute), in "calls".

\* parser.py:126-131: the bolded element and its enclosing link
AuthorFromStrong(article) ==
    LET strong == Select(article, IsStrong)
    IN  IF strong = <<>>
        THEN [name |-> UNKNOWN, url |-> NoAttr, calls |-> 1]
        ELSE IF strong[1].tag = "a"
        THEN [name |-> Strip(strong[1].text), url |-> strong[1].href, calls |-> 4]
        ELSE [name |-> Strip(strong[1].text), url |-> NoAttr, calls |-> 3]

\* parser.py:140-148
IsProfileLink(e) ==
    LET href == OrEmpty(e.href)
        link_text == Strip(e.text)
        segments == Split(href, "/")
    IN  /\ Len(link_text) > 2
        /\ Len(link_text) < 50
        /\ Contains(href, FACEBOOK_COM)
        /\ ~Contains(href, GROUPS)
        /\ ~Contains(segments[Len(segments)], <<"?">>)

\* parser.py:136-151: k is the place of the first profile link, 0 for none
AuthorAtLink(a, links, k) ==
    IF k # 0
    THEN [name |-> Strip(links[k].text),
          url |-> Attr(OrEmpty(links[k].href)),
          calls |-> a.calls + 1 + 2 * k]
    ELSE [a EXCEPT !.calls = a.calls + 1 + 2 * Len(links)]

\* parser.py:134-151
AuthorFromLinks(article, a) ==
    IF a.name # UNKNOWN THEN a
    ELSE AuthorAtLink(a, Select(article, IsRoleLink),
                      FirstTrue(Map(Select(article, IsRoleLink), IsProfileLink)))

\* parser.py:154-157
AuthorFromFirstLine(lines, a) ==
    IF /\ a.name = UNKNOWN
       /\ lines # <<>>
       /\ Len(lines[1]) < 50
       /\ \A i \in 1..Len(Take(lines[1], 5)): lines[1][i] \notin Digits
    THEN [a EXCEPT !.name = lines[1]]
    ELSE a

\* if sep in name: name = name.split(sep)[0]
CutAt(name, sep) == IF Contains(name, sep) THEN Before(name, sep) ELSE name

\* parser.py:160-165
CleanAuthor(name) == CutAt(CutAt(CutAt(name, IS_WITH), SHARED), UPDATED)

\* parser.py:168-173
skip_posts ==
    <<PEOPLE_YOU_MAY_KNOW, <<BOM>> \o PEOPLE_YOU_MAY_KNOW, SUGGESTED_FOR_YOU,
      GROUPS_YOU_MIGHT_LIKE>>

\* The slip of testing the author name only.
IsFeedNoiseAuthorOnly(author_name, all_text) == InList(author_name, skip_posts)

\* parser.py:174
IsFeedNoise(author_name, all_text) ==
    \/ InList(author_name, skip_posts)
    \/ \E i \in 1..Len(skip_posts): Contains(Take(all_text, 100), skip_posts[i])

\* parser.py:178-180
invalid_authors == <<ONLINE_STATUS_INDICATOR, ACTIVE, SPONSORED>>

ValidAuthor(name) == IF InList(name, invalid_authors) THEN UNKNOWN ELSE name

\* parser.py:188
skip_phrases(author_name) ==
    <<LIKE, COMMENT, SHARE, REPLY, author_name, <<MIDDLE_DOT>>>>

\* parser.py:191-203
IsContentBlock(text, author_name) ==
    /\ Len(text) >= 10
    /\ text # author_name
    /\ ~InList(text, skip_phrases(author_name))
    /\ ~IsBareRelativeToken(text)

\* re.sub(r"\s*…?\s*See more\s*$", "", text), parser.py:212
StripSeeMoreSuffix(text) ==
    LET t == RStrip(text)
        a == RStrip(Take(t, Len(t) - Len(SEE_MORE)))
    IN  IF ~EndsWith(t, SEE_MORE) THEN text
        ELSE IF a # <<>> /\ a[Len(a)] = ELLIPSIS THEN RStrip(Take(a, Len(a) - 1))
        ELSE a

\* re.sub(r"^\s*…?\s*See more\s*", "", text), parser.py:213
StripSeeMorePrefix(text) ==
    LET a == LStrip(text)
        b == IF a # <<>> /\ a[1] = ELLIPSIS THEN LStrip(Tail(a)) ELSE a
    IN  IF StartsWith(b, SEE_MORE) THEN LStrip(Drop(b, Len(SEE_MORE))) ELSE text

\* parser.py:209-213: a part with its "See more" trimmings removed
Cleaned(part) == StripSeeMorePrefix(StripSeeMoreSuffix(Strip(part)))

\* parser.py:206-216: the cleaned parts, each once, in first-seen order
RECURSIVE UniqueCleaned(_, _)
UniqueCleaned(cleaned_parts, unique_parts) ==
    IF cleaned_parts = <<>> THEN unique_parts
    ELSE UniqueCleaned(Tail(cleaned_parts),
                       IF Head(cleaned_parts) # <<>>
                            /\ ~InList(Head(cleaned_parts), unique_parts)
                       THEN Append(unique_parts, Head(cleaned_parts))
                       ELSE unique_parts)

\* parser.py:185-218
ContentFromBlocks(article, author_name) ==
    LET texts == Map(Select(article, IsDirAutoDiv), LAMBDA e: Strip(e.text))
        content_parts == SelectSeq(texts, LAMBDA t: IsContentBlock(t, author_name))
    IN  Join(Take(UniqueCleaned(Map(content_parts, Cleaned), <<>>), 2), <<"\n">>)

\* parser.py:221-233
ContentFromLines(lines, author_name) ==
    LET chrome == <<LIKE, COMMENT, SHARE, <<MIDDLE_DOT>>, PLUS_3, PLUS_1, PLUS_2>>
        filtered_lines ==
            SelectSeq(lines, LAMBDA line:
                /\ line # author_name
                /\ ~IsBareRelativeToken(line)
                /\ ~InList(line, chrome)
                /\ Len(line) > 10)
    IN  Join(Take(filtered_lines, 3), <<"\n">>)

\* parser.py:247-250
HasTimeUnitToken(link_text) ==
    \E t \in {<<"h">>, <<"d">>, <<"w">>, MIN, YESTERDAY, JUST_NOW}:
        Contains(Lower(link_text), t)

\* parser.py:240-253
RECURSIVE TimeLinkLoop(_, _)
TimeLinkLoop(links, now) ==
    IF links = <<>> THEN [timestamp |-> NoTime, calls |-> 0]
    ELSE LET aria == Head(links).aria
             fromAria == IF aria.has /\ aria.val # <<>>
                         THEN parse_timestamp(aria.val, now) ELSE NoTime
             link_text == Strip(Head(links).text)
             fromText == IF link_text # <<>> /\ HasTimeUnitToken(link_text)
                         THEN parse_timestamp(link_text, now) ELSE NoTime
             rest == TimeLinkLoop(Tail(links), now)
         IN  IF fromAria.has \/ fromAria.raises THEN [timestamp |-> fromAria, calls |-> 1]
             ELSE IF fromText.has \/ fromText.raises THEN [timestamp |-> fromText, calls |-> 2]
             ELSE [timestamp |-> rest.timestamp, calls |-> 2 + rest.calls]

\* parser.py:260-262: what one link's href resolves to
IdOfHref(href) == IF href # <<>> THEN extract_post_id(href) ELSE RetNone

\* parser.py:259-263: one turn of the loop.  r is this link's result, rest
\* what the loop does on the links after it.
HrefStep(r, rest) ==
    IF r.tag = "raise" THEN [post_id |-> Raised, calls |-> 1]
    ELSE IF r.tag = "str" /\ r.val # <<>> THEN [post_id |-> r, calls |-> 1]
    ELSE [post_id |-> rest.post_id, calls |-> 1 + rest.calls]

\* parser.py:258-263
RECURSIVE HrefLoop(_)
HrefLoop(links) ==
    IF links = <<>> THEN [post_id |-> RetNone, calls |-> 0]
    ELSE HrefStep(IdOfHref(OrEmpty(Head(links).href)), HrefLoop(Tail(links)))

\* parser.py:265-270: id(article) is the address of the handle object
SyntheticPostId(content, salt, address) ==
    POST_PREFIX \o (IF content # <<>>
                    THEN Decimal(HashMod(salt, Take(content, 50)))
                    ELSE Decimal(address))

\* parser.py:279-284
RECURSIVE ReactionLoop(_, _)
ReactionLoop(elems, total) ==
    IF elems = <<>> THEN [total |-> total, calls |-> 0]
    ELSE LET aria == OrEmpty(Head(elems).aria)
             named == Contains(Lower(aria), REACTION) \/ Contains(Lower(aria), LIKE_LOWER)
             t == IF named THEN parse_reactions_text(aria) ELSE total
             rest == ReactionLoop(Tail(elems), t)
         IN  IF named /\ t > 0 THEN [total |-> t, calls |-> 1]
             ELSE [total |-> rest.total, calls |-> 1 + rest.calls]

\* The first place at or after k that holds no whitespace (Len + 1 if none).
AfterSpace(t, k) ==
    IF \E m \in k..Len(t): t[m] \notin Whitespace
    THEN CHOOSE m \in k..Len(t): t[m] \notin Whitespace /\ \A j \in k..(m - 1): t[j] \in Whitespace
    ELSE Len(t) + 1

\* re.search(r"All reactions:?\s*\n?(\d+)", all_text), parser.py:290: group(1)
SearchAllReactions(t) ==
    LET digitsAt(i) ==
            LET j == i + Len(ALL_REACTIONS)
                k == IF j <= Len(t) /\ t[j] = ":" THEN j + 1 ELSE j
            IN  AfterSpace(t, k)
        hit(i) == MatchAt(t, i, ALL_REACTIONS) /\ digitsAt(i) <= Len(t)
                    /\ t[digitsAt(i)] \in Digits
    IN  IF \E i \in 1..Len(t): hit(i)
        THEN LET i == CHOOSE i \in 1..Len(t): hit(i) /\ \A j \in 1..(i - 1): ~hit(j)
             IN  SubSeq(t, digitsAt(i), RunEnd(t, digitsAt(i), Digits))
        ELSE <<>>

\* re.search(r"\n(\d+)\n.*(?:and \d+ others|others)", all_text), parser.py:296
SearchOthers(t) ==
    LET lineAfter(e) ==
            LET rest == Drop(t, e + 1)
                nl == FindChar(rest, {"\n"})
            IN  IF nl = 0 THEN rest ELSE Take(rest, nl - 1)
        hit(i) == /\ t[i] = "\n"
                  /\ i + 1 <= Len(t)
                  /\ t[i + 1] \in Digits
                  /\ LET e == RunEnd(t, i + 1, Digits)
                     IN  e + 1 <= Len(t) /\ t[e + 1] = "\n"
                            /\ Contains(lineAfter(e), OTHERS)
    IN  IF \E i \in 1..Len(t): hit(i)
        THEN LET i == CHOOSE i \in 1..Len(t): hit(i) /\ \A j \in 1..(i - 1): ~hit(j)
             IN  SubSeq(t, i + 1, RunEnd(t, i + 1, Digits))
        ELSE <<>>

\* parser.py:290-298: counted is group(1) of the "All reactions" match,
\* others group(1) of the "others" match
ReactionsFromMatches(counted, others) ==
    IF counted # <<>> /\ ToInt(counted) # 0 THEN ToInt(counted)
    ELSE IF others # <<>> THEN ToInt(others)
    ELSE 0

\* parser.py:287-298
ReactionsFromText(all_text) ==
    ReactionsFromMatches(SearchAllReactions(all_text), SearchOthers(all_text))

\* re.search(r"(\d+)\s*comment", text), parser.py:307: group(1)
SearchCommentCount(t) ==
    LET hit(i) == /\ t[i] \in Digits
                  /\ (i = 1 \/ t[i - 1] \notin Digits)
                  /\ MatchAt(t, AfterSpace(t, RunEnd(t, i, Digits) + 1), COMMENT_LOWER)
    IN  IF \E i \in 1..Len(t): hit(i)
        THEN LET i == CHOOSE i \in 1..Len(t): hit(i) /\ \A j \in 1..(i - 1): ~hit(j)
             IN  SubSeq(t, i, RunEnd(t, i, Digits))
        ELSE <<>>

\* parser.py:305-310
RECURSIVE CommentButtonLoop(_)
CommentButtonLoop(buttons) ==
    IF buttons = <<>> THEN [comments_count |-> 0, calls |-> 0]
    ELSE LET found == SearchCommentCount(Lower(OrEmpty(Head(buttons).aria)))
             rest == CommentButtonLoop(Tail(buttons))
         IN  IF found # <<>> THEN [comments_count |-> ToInt(found), calls |-> 1]
             ELSE [comments_count |-> rest.comments_count, calls |-> 1 + rest.calls]

\* parser.py:126-157: the author found by the three ways in their order
ModernAuthor(article) ==
    AuthorFromFirstLine(LinesOf(InnerText(article)),
                        AuthorFromLinks(article, AuthorFromStrong(article)))

\* parser.py:220-221: the lines are used when the blocks gave nothing
ContentOr(fromBlocks, lines, author_name) ==
    IF fromBlocks = <<>> /\ Len(lines) > 2
    THEN ContentFromLines(lines, author_name)
    ELSE fromBlocks

\* parser.py:183-233
PostContent(article, author_name) ==
    ContentOr(ContentFromBlocks(article, author_name), LinesOf(InnerText(article)),
              author_name)

\* parser.py:168-324, with what the steps before found: the returns in their
\* order, and the calls made up to each.
ModernPostRecord(article, salt, address, resolved, cleaned_name, content, time, link, labelled, buttons) ==
    LET all_text == InnerText(article)
        calls1 == 1 + resolved.calls
        callsT == calls1 + 1 + Len(Select(article, IsDirAutoDiv)) + 1 + time.calls
        calls2 == callsT + 1 + link.calls
        calls3 == calls2 + 1 + labelled.calls + (IF labelled.total = 0 THEN 1 ELSE 0)
                    + 1 + buttons.calls
    IN  IF IsFeedNoise(cleaned_name, all_text)
        THEN [ret |-> NoRecord, calls |-> calls1]
        ELSE IF time.timestamp.raises
        THEN [ret |-> Raised, calls |-> callsT]
        ELSE IF link.post_id.tag = "raise"
        THEN [ret |-> Raised, calls |-> calls2]
        ELSE IF content = <<>> \/ Len(content) < 5
        THEN [ret |-> NoRecord, calls |-> calls3]
        ELSE [ret |-> [tag |-> "post",
                       id |-> IF link.post_id.tag = "str" THEN link.post_id.val
                              ELSE SyntheticPostId(content, salt, address),
                       author |-> [name |-> ValidAuthor(cleaned_name),
                                   profile_url |-> resolved.url],
                       content |-> content,
                       timestamp |-> time.timestamp,
                       reactions |-> [total |-> IF labelled.total = 0
                                                THEN ReactionsFromText(all_text)
                                                ELSE labelled.total],
                       comments_count |-> buttons.comments_count],
              calls |-> calls3]

\* parser.py:160-310, resolved being the author of parser.py:126-157
ModernPostBy(article, salt, address, now, resolved) ==
    ModernPostRecord(article, salt, address, resolved,
                     CleanAuthor(resolved.name),
                     PostContent(article, ValidAuthor(CleanAuthor(resolved.name))),
                     TimeLinkLoop(Select(article, IsPermalink), now),
                     HrefLoop(Select(article, IsHrefLink)),
                     ReactionLoop(Select(article, IsReactionLabelled), 0),
                     CommentButtonLoop(Select(article, IsCommentLabelled)))

\* The body of the try block, parser.py:117-324: what it returns (a Post,
\* NoRecord, or Raised when parse_timestamp or extract_post_id raises) and the
\* calls it makes.
modern_post_body(article, salt, address, now) ==
    ModernPostBy(article, salt, address, now, ModernAuthor(article))

\* The slip of leaving the try/except out: an exception reaches the caller.
TryExceptMissing(body, fault) ==
    IF fault >= 1 /\ fault <= body.calls THEN Raised ELSE body.ret

\* try: ... except Exception: return None, parser.py:116, 326-327 (and
\* 332/408, 414/459, 465/573).  fault = k > 0: the k-th call on the document
\* tree raises.
TryExcept(body, fault) ==
    IF fault >= 1 /\ fault <= body.calls THEN NoRecord
    ELSE IF body.ret.tag = "raise" THEN NoRecord
    ELSE body.ret

parse_modern_post(article, fault, salt, address, now) ==
    TryExcept(modern_post_body(article, salt, address, now), fault)

\* ---- parse_modern_comment, parser.py:463-574

\* parser.py:483-491: a link that names a profile and carries a short text
IsCommentProfileLink(e) ==
    LET href == OrEmpty(e.href)
        link_text == Strip(e.text)
    IN  /\ link_text # <<>>
        /\ Len(link_text) < 50
        /\ Contains(href, FACEBOOK_COM)
        /\ ~Contains(href, GROUPS)

\* parser.py:476-494: k is the place of the first profile link, 0 for none
CommentAuthorAt(strong, links, k) ==
    LET name0 == IF strong = <<>> THEN UNKNOWN ELSE Strip(strong[1].text)
        calls0 == IF strong = <<>> THEN 1 ELSE 2
    IN  IF k # 0
        THEN [name |-> IF name0 = UNKNOWN THEN Strip(links[k].text) ELSE name0,
              url |-> Attr(OrEmpty(links[k].href)),
              calls |-> calls0 + 1 + 2 * k]
        ELSE [name |-> name0, url |-> NoAttr, calls |-> calls0 + 1 + 2 * Len(links)]

\* parser.py:476-494: the bolded element, then the first profile link
CommentAuthor(element) ==
    CommentAuthorAt(Select(element, IsStrong), Select(element, IsRoleLink),
                    FirstTrue(Map(Select(element, IsRoleLink), IsCommentProfileLink)))

\* parser.py:498-506
skip_words(author_name) ==
    <<LIKE, REPLY, SHARE, <<MIDDLE_DOT>>, author_name, SEE_MORE, VIEW_REPLIES>>

\* parser.py:509-526: the first block that is still something once cleaned
CommentFromBlocks(element, author_name) ==
    LET texts == Map(Select(element, IsDirAutoDiv), LAMBDA e: Strip(e.text))
        content_parts ==
            SelectSeq(texts, LAMBDA text:
                /\ text # <<>>
                /\ Len(text) > 5
                /\ ~InList(text, skip_words(author_name))
                /\ ~IsBareRelativeToken(text))
        unique_parts ==
            SelectSeq(Map(content_parts, LAMBDA part: Strip(StripSeeMoreSuffix(part))),
                      LAMBDA cleaned: cleaned # <<>> /\ cleaned # author_name)
    IN  IF unique_parts = <<>> THEN <<>> ELSE unique_parts[1]

\* parser.py:530-539
CommentFromLines(lines, author_name) ==
    LET usable ==
            SelectSeq(lines, LAMBDA line:
                /\ line # author_name
                /\ ~InList(line, skip_words(author_name))
                /\ ~IsBareRelativeToken(line)
                /\ Len(line) > 5)
    IN  IF usable = <<>> THEN <<>> ELSE usable[1]

\* parser.py:545
SyntheticCommentId(content, salt) ==
    COMMENT_PREFIX \o Decimal(HashMod(salt, Take(content, 30)))

\* parser.py:552-556
RECURSIVE CommentReactionLoop(_)
CommentReactionLoop(elems) ==
    IF elems = <<>> THEN [total |-> 0, calls |-> 0]
    ELSE LET aria == OrEmpty(Head(elems).aria)
             rest == CommentReactionLoop(Tail(elems))
         IN  IF Contains(Lower(aria), REACTION)
             THEN [total |-> parse_reactions_text(aria), calls |-> 1]
             ELSE [total |-> rest.total, calls |-> 1 + rest.calls]

\* re.search(r"\n(\d+)\n", all_text), parser.py:560: group(1)
SearchLoneNumber(t) ==
    LET hit(i) == /\ t[i] = "\n"
                  /\ i + 1 <= Len(t)
                  /\ t[i + 1] \in Digits
                  /\ RunEnd(t, i + 1, Digits) + 1 <= Len(t)
                  /\ t[RunEnd(t, i + 1, Digits) + 1] = "\n"
    IN  IF \E i \in 1..Len(t): hit(i)
        THEN LET i == CHOOSE i \in 1..Len(t): hit(i) /\ \A j \in 1..(i - 1): ~hit(j)
             IN  SubSeq(t, i + 1, RunEnd(t, i + 1, Digits))
        ELSE <<>>

\* parser.py:528-529: the lines are used when the blocks gave nothing
CommentContentOr(fromBlocks, lines, author_name) ==
    IF fromBlocks = <<>> THEN CommentFromLines(lines, author_name) ELSE fromBlocks

\* parser.py:472-571, with what the steps before found: the returns in their
\* order, and the calls made up to each.
ModernCommentRecord(element, salt, author, content, labelled, lone) ==
    LET calls2 == 1 + author.calls + 1 + Len(Select(element, IsDirAutoDiv))
    IN  IF LinesOf(InnerText(element)) = <<>> THEN [ret |-> NoRecord, calls |-> 1]
        ELSE IF content = <<>> THEN [ret |-> NoRecord, calls |-> calls2]
        ELSE [ret |-> [tag |-> "comment",
                       id |-> SyntheticCommentId(content, salt),
                       author |-> [name |-> author.name, profile_url |-> author.url],
                       content |-> content,
                       timestamp |-> NoTime,
                       reactions |-> [total |-> IF labelled.total = 0 /\ lone # <<>>
                                                THEN ToInt(lone)
                                                ELSE labelled.total]],
              calls |-> calls2 + 1 + labelled.calls]

\* parser.py:496-563, author being the author of parser.py:476-494
ModernCommentBy(element, salt, author) ==
    ModernCommentRecord(element, salt, author,
                        CommentContentOr(CommentFromBlocks(element, author.name),
                                         LinesOf(InnerText(element)), author.name),
                        CommentReactionLoop(Select(element, IsReactionLabelled)),
                        SearchLoneNumber(InnerText(element)))

\* The body of the try block, parser.py:466-571
modern_comment_body(element, salt) ==
    ModernCommentBy(element, salt, CommentAuthor(element))

parse_modern_comment(element, fault, salt) ==
    TryExcept(modern_comment_body(element, salt), fault)

\* ---- parse_mbasic_post, parser.py:330-409

MBASIC_ORIGIN == <<"h", "t", "t", "p", "s", ":", "/", "/", "m", "b", "a", "s", "i", "c", ".", "f", "a", "c", "e", "b", "o", "o", "k", ".", "c", "o", "m">>

HTTP == <<"h", "t", "t", "p">>

STORY_PHP == <<"/", "s", "t", "o", "r", "y", ".", "p", "h", "p">>

UFI_REACTION == <<"/", "u", "f", "i", "/", "r", "e", "a", "c", "t", "i", "o", "n", "/">>

TOP_LEVEL_POST_ID == <<"\"", "t", "o", "p", "_", "l", "e", "v", "e", "l", "_", "p", "o", "s", "t", "_", "i", "d", "\"", ":", "\"">>
\* ---- the mbasic layout.  A node of the mbasic layout: its elements in
\* document order and the attributes the extractors ask the node itself for.
\* Tag "h3a" is a header holding a link (the element's text and href are the
\* link's); tag "h3" is a header with no link.
MbasicNode(elems, data_ft, data_commentid) ==
    [elems |-> elems, data_ft |-> data_ft, data_commentid |-> data_commentid]

IsHeader(e) == e.tag \in {"h3", "h3a"}

IsHeaderLink(e) == e.tag = "h3a"

IsSpan(e) == e.tag = "span"

IsParagraph(e) == e.tag = "p"

IsAbbr(e) == e.tag = "abbr"

IsDiv(e) == e.tag = "div"

\* a[href*="part"]
IsLinkTo(e, part) ==
    e.tag \in {"a", "h3a"} /\ e.href.has /\ Contains(e.href.val, part)

\* The slip of testing the attribute against None only.
OnlyNoneIsFalsy(a) == ~a.has

\* "not x" on an optional string: None and "" are both false
Falsy(a) == ~a.has \/ a.val = <<>>

\* parser.py:341-343, 421-423
AbsoluteUrl(profile_url) ==
    IF ~Falsy(profile_url) /\ ~StartsWith(profile_url.val, HTTP)
    THEN Attr(MBASIC_ORIGIN \o profile_url.val)
    ELSE profile_url

\* parser.py:333-343
MbasicPostAuthor(elems) ==
    LET header == Select(elems, IsHeader)
    IN  IF header = <<>> THEN [name |-> UNKNOWN, url |-> NoAttr, calls |-> 1]
        ELSE IF ~IsHeaderLink(header[1])
        THEN [name |-> UNKNOWN, url |-> NoAttr, calls |-> 2]
        ELSE [name |-> Strip(header[1].text), url |-> AbsoluteUrl(header[1].href),
              calls |-> 4]

\* parser.py:351-355: each paragraph's text is asked for once, and once more
\* when it is not blank
MbasicParagraphs(elems) ==
    LET texts == Map(Select(elems, IsParagraph), LAMBDA e: Strip(e.text))
        content_parts == SelectSeq(texts, LAMBDA t: t # <<>>)
    IN  [content |-> Join(content_parts, <<"\n">>),
         calls |-> 1 + Len(texts) + Len(content_parts)]

\* re.search(r'"top_level_post_id":"(\d+)"', data_ft), parser.py:373: group(1)
SearchTopLevelPostId(t) ==
    LET from(i) == i + Len(TOP_LEVEL_POST_ID)
        hit(i) == /\ MatchAt(t, i, TOP_LEVEL_POST_ID)
                  /\ from(i) <= Len(t)
                  /\ t[from(i)] \in Digits
                  /\ RunEnd(t, from(i), Digits) + 1 <= Len(t)
                  /\ t[RunEnd(t, from(i), Digits) + 1] = "\""
    IN  IF \E i \in 1..Len(t): hit(i)
        THEN LET i == CHOOSE i \in 1..Len(t): hit(i) /\ \A j \in 1..(i - 1): ~hit(j)
             IN  SubSeq(t, from(i), RunEnd(t, from(i), Digits))
        ELSE <<>>

\* parser.py:346-355: the first span's text, else the paragraphs
MbasicPostContent(elems) ==
    LET spans == Select(elems, IsSpan)
        fromSpan == IF spans = <<>> THEN <<>> ELSE Strip(spans[1].text)
        paragraphs == MbasicParagraphs(elems)
    IN  [content |-> IF fromSpan = <<>> THEN paragraphs.content ELSE fromSpan,
         calls |-> (IF spans = <<>> THEN 1 ELSE 2)
                    + (IF fromSpan = <<>> THEN paragraphs.calls ELSE 0)]

\* parser.py:363-368: the identifier in the first link to the post
MbasicPostLinkId(elems) ==
    LET post_links == Select(elems, LAMBDA e: IsLinkTo(e, STORY_PHP) \/ IsLinkTo(e, POSTS_SLASH))
    IN  [id |-> IF post_links = <<>> \/ Falsy(post_links[1].href) THEN RetNone
                ELSE extract_post_id(post_links[1].href.val),
         calls |-> IF post_links = <<>> THEN 1 ELSE 2]

\* parser.py:357-406, with what the steps before found: the returns in their
\* order, and the calls made up to each.
MbasicPostRecord(article, salt, address, now, author, found, link) ==
    LET elems == article.elems
        abbrs == Select(elems, IsAbbr)
        noLinkId == link.id.tag # "str" \/ link.id.val = <<>>
        fromDataFt == IF noLinkId /\ ~Falsy(article.data_ft)
                      THEN SearchTopLevelPostId(article.data_ft.val) ELSE <<>>
        timestamp == IF abbrs = <<>> THEN NoTime
                     ELSE parse_timestamp(Strip(abbrs[1].text), now)
        callsT == author.calls + found.calls + (IF abbrs = <<>> THEN 1 ELSE 2)
        calls1 == callsT + link.calls
        reaction_links == Select(elems, LAMBDA e: IsLinkTo(e, UFI_REACTION))
        comment_links == Select(elems, LAMBDA e: IsLinkTo(e, COMMENT_LOWER))
        calls2 == calls1 + (IF noLinkId THEN 1 ELSE 0)
                    + (IF reaction_links = <<>> THEN 1 ELSE 2)
                    + (IF comment_links = <<>> THEN 1 ELSE 2)
    IN  IF timestamp.raises THEN [ret |-> Raised, calls |-> callsT]
        ELSE IF link.id.tag = "raise" THEN [ret |-> Raised, calls |-> calls1]
        ELSE [ret |-> [tag |-> "post",
                       id |-> IF ~noLinkId THEN link.id.val
                              ELSE IF fromDataFt # <<>> THEN fromDataFt
                              ELSE SyntheticPostId(found.content, salt, address),
                       author |-> [name |-> author.name, profile_url |-> author.url],
                       content |-> found.content,
                       timestamp |-> timestamp,
                       reactions |-> [total |-> IF reaction_links = <<>> THEN 0
                                                ELSE parse_reactions_text(
                                                        Strip(reaction_links[1].text))],
                       comments_count |-> IF comment_links = <<>> THEN 0
                                          ELSE ToInt(FirstDigitRun(comment_links[1].text))],
              calls |-> calls2]

\* The body of the try block, parser.py:333-406
mbasic_post_body(article, salt, address, now) ==
    MbasicPostRecord(article, salt, address, now, MbasicPostAuthor(article.elems),
                     MbasicPostContent(article.elems), MbasicPostLinkId(article.elems))

parse_mbasic_post(article, fault, salt, address, now) ==
    TryExcept(mbasic_post_body(article, salt, address, now), fault)

\* ---- parse_mbasic_comment, parser.py:412-460

\* parser.py:436-442
MbasicCommentId(data_commentid, content, salt, address) ==
    IF ~Falsy(data_commentid) THEN data_commentid.val
    ELSE COMMENT_PREFIX \o (IF content # <<>>
                            THEN Decimal(HashMod(salt, Take(content, 30)))
                            ELSE Decimal(address))

\* The body of the try block, parser.py:415-457
mbasic_comment_body(comment_div, salt, address) ==
    LET elems == comment_div.elems
        author_link == Select(elems, IsHeaderLink)
        author == IF author_link = <<>>
                  THEN [name |-> UNKNOWN, profile_url |-> NoAttr]
                  ELSE [name |-> Strip(author_link[1].text),
                        profile_url |-> AbsoluteUrl(author_link[1].href)]
        content_div == Select(elems, IsDiv)
        fromDiv == IF content_div = <<>> THEN <<>> ELSE Strip(content_div[1].text)
        lines == Split(InnerText(elems), "\n")
        content == IF fromDiv # <<>> THEN fromDiv
                   ELSE IF Len(lines) > 1 THEN Strip(Join(Tail(lines), <<"\n">>))
                   ELSE <<>>
        reaction_span == Select(elems, LAMBDA e: IsLinkTo(e, REACTION))
        total == IF reaction_span = <<>> THEN 0
                 ELSE parse_reactions_text(Strip(reaction_span[1].text))
        calls == (IF author_link = <<>> THEN 1 ELSE 3)
                    + (IF content_div = <<>> THEN 1 ELSE 2)
                    + (IF fromDiv = <<>> THEN 1 ELSE 0)
                    + 1
                    + (IF reaction_span = <<>> THEN 1 ELSE 2)
    IN  [ret |-> [tag |-> "comment",
                  id |-> MbasicCommentId(comment_div.data_commentid, content, salt, address),
                  author |-> author,
                  content |-> content,
                  timestamp |-> NoTime,
                  reactions |-> [total |-> total]],
         calls |-> calls]

parse_mbasic_comment(comment_div, fault, salt, address) ==
    TryExcept(mbasic_comment_body(comment_div, salt, address), fault)


\* ---- the nodes tried.  The elements a modern node is made of:
EL_AUTHOR ==
    El("a", <<"J", "a", "n", "e", " ", "D", "o", "e">>,
       Attr(<<"h", "t", "t", "p", "s", ":", "/", "/", "f", "a", "c", "e", "b", "o", "o", "k", ".", "c", "o", "m", "/", "j", "a", "n", "e">>),
       TRUE, FALSE, NoAttr, TRUE)

EL_CONTENT ==
    El("div", <<"C", "h", "e", "c", "k", " ", "t", "h", "i", "s", " ", "o", "u", "t", "!">>,
       NoAttr,
       FALSE, TRUE, NoAttr, FALSE)

EL_LIKE ==
    El("div", <<"L", "i", "k", "e">>,
       NoAttr,
       FALSE, TRUE, NoAttr, FALSE)

EL_SEE_MORE ==
    El("div", <<"a", "b", " ", ELLIPSIS, " ", "S", "e", "e", " ", "m", "o", "r", "e">>,
       NoAttr,
       FALSE, TRUE, NoAttr, FALSE)

EL_PERMALINK ==
    El("a", <<"6", "h">>,
       Attr(<<"h", "t", "t", "p", "s", ":", "/", "/", "f", "a", "c", "e", "b", "o", "o", "k", ".", "c", "o", "m", "/", "g", "r", "o", "u", "p", "s", "/", "g", "/", "p", "o", "s", "t", "s", "/", "1", "2">>),
       TRUE, FALSE, NoAttr, FALSE)

EL_BAD_LINK ==
    El("a", <<>>,
       Attr(<<"h", "t", "t", "p", "s", ":", "/", "/", "[", "x">>),
       FALSE, FALSE, NoAttr, FALSE)

EL_REACTIONS ==
    El("span", <<>>,
       NoAttr,
       FALSE, FALSE, Attr(<<"4", "2", " ", "r", "e", "a", "c", "t", "i", "o", "n", "s">>), FALSE)

EL_EMPTY_STRONG ==
    El("strong", <<>>,
       NoAttr,
       FALSE, FALSE, NoAttr, FALSE)

EL_NOISE ==
    El("span", <<"P", "e", "o", "p", "l", "e", " ", "y", "o", "u", " ", "m", "a", "y", " ", "k", "n", "o", "w">>,
       NoAttr,
       FALSE, FALSE, NoAttr, FALSE)

EL_STORY_LINK ==
    El("a", <<"Y", "e", "s", "t", "e", "r", "d", "a", "y", " ", "a", "t", " ", "3", ":", "4", "5", " ", "P", "M">>,
       Attr(<<"/", "p", "e", "r", "m", "a", "l", "i", "n", "k", "/", "?", "s", "t", "o", "r", "y", "_", "f", "b", "i", "d", "=", "5">>),
       FALSE, FALSE, NoAttr, FALSE)

EL_SECOND ==
    El("div", <<"S", "e", "c", "o", "n", "d", " ", "b", "l", "o", "c", "k", "!", "!">>,
       NoAttr,
       FALSE, TRUE, NoAttr, FALSE)

EL_COMMENTS ==
    El("span", <<>>,
       NoAttr,
       FALSE, FALSE, Attr(<<"3", " ", "c", "o", "m", "m", "e", "n", "t", "s">>), FALSE)

EL_PROFILE ==
    El("a", <<"B", "o", "b", " ", "R", "a", "y">>,
       Attr(<<"h", "t", "t", "p", "s", ":", "/", "/", "f", "a", "c", "e", "b", "o", "o", "k", ".", "c", "o", "m", "/", "b", "o", "b">>),
       TRUE, FALSE, NoAttr, FALSE)

EL_LINE ==
    El("span", <<"S", "o", "m", "e", " ", "p", "l", "a", "i", "n", " ", "l", "i", "n", "e">>,
       NoAttr,
       FALSE, FALSE, NoAttr, FALSE)

EL_SUGGESTED ==
    El("div", <<"S", "u", "g", "g", "e", "s", "t", "e", "d", " ", "f", "o", "r", " ", "y", "o", "u", " ", "t", "o", "d", "a", "y">>,
       NoAttr,
       FALSE, TRUE, NoAttr, FALSE)

EL_NAME_SEE_MORE ==
    El("div", <<"J", "a", "n", "e", " ", "D", "o", "e", " ", "S", "e", "e", " ", "m", "o", "r", "e">>,
       NoAttr,
       FALSE, TRUE, NoAttr, FALSE)

ModernPool ==
    {EL_AUTHOR,
     EL_CONTENT,
     EL_LIKE,
     EL_SEE_MORE,
     EL_PERMALINK,
     EL_BAD_LINK,
     EL_REACTIONS,
     EL_EMPTY_STRONG,
     EL_NOISE,
     EL_STORY_LINK,
     EL_SECOND,
     EL_COMMENTS,
     EL_PROFILE,
     EL_LINE,
     EL_SUGGESTED,
     EL_NAME_SEE_MORE}

\* The elements a modern comment node is made of:
EL_SHORT_SEE_MORE ==
    El("div", <<"a", "b", "c", "d", " ", "S", "e", "e", " ", "m", "o", "r", "e">>,
       NoAttr,
       FALSE, TRUE, NoAttr, FALSE)

EL_COUNT ==
    El("span", <<"5">>,
       NoAttr,
       FALSE, FALSE, NoAttr, FALSE)

EL_LIKES ==
    El("span", <<>>,
       NoAttr,
       FALSE, FALSE, Attr(<<"2", " ", "l", "i", "k", "e", "s">>), FALSE)

CommentPool ==
    {EL_AUTHOR,
     EL_CONTENT,
     EL_LIKE,
     EL_PERMALINK,
     EL_REACTIONS,
     EL_EMPTY_STRONG,
     EL_PROFILE,
     EL_LINE,
     EL_SHORT_SEE_MORE,
     EL_COUNT,
     EL_LIKES}

\* The elements an mbasic post node is made of:
MB_AUTHOR ==
    El("h3a", <<"J", "a", "n", "e", " ", "D", "o", "e">>,
       Attr(<<"/", "j", "a", "n", "e">>),
       FALSE, FALSE, NoAttr, FALSE)

MB_HEADER ==
    El("h3", <<"G", "r", "o", "u", "p", " ", "p", "o", "s", "t">>,
       NoAttr,
       FALSE, FALSE, NoAttr, FALSE)

MB_SPAN_HI ==
    El("span", <<"H", "i">>,
       NoAttr,
       FALSE, FALSE, NoAttr, FALSE)

MB_SPAN ==
    El("span", <<"C", "h", "e", "c", "k", " ", "t", "h", "i", "s", " ", "o", "u", "t", "!">>,
       NoAttr,
       FALSE, FALSE, NoAttr, FALSE)

MB_P ==
    El("p", <<"P", "a", "r", "a", " ", "o", "n", "e">>,
       NoAttr,
       FALSE, FALSE, NoAttr, FALSE)

MB_ABBR ==
    El("abbr", <<"6", "h">>,
       NoAttr,
       FALSE, FALSE, NoAttr, FALSE)

MB_STORY ==
    El("a", <<"F", "u", "l", "l", " ", "S", "t", "o", "r", "y">>,
       Attr(<<"/", "s", "t", "o", "r", "y", ".", "p", "h", "p", "?", "s", "t", "o", "r", "y", "_", "f", "b", "i", "d", "=", "5", "&", "i", "d", "=", "1">>),
       FALSE, FALSE, NoAttr, FALSE)

MB_STORY_NOID ==
    El("a", <<"F", "u", "l", "l", " ", "S", "t", "o", "r", "y">>,
       Attr(<<"/", "s", "t", "o", "r", "y", ".", "p", "h", "p", "?", "i", "d", "=", "1">>),
       FALSE, FALSE, NoAttr, FALSE)

MB_BAD ==
    El("a", <<"M", "o", "r", "e">>,
       Attr(<<"h", "t", "t", "p", "s", ":", "/", "/", "[", "x", "/", "p", "o", "s", "t", "s", "/", "1">>),
       FALSE, FALSE, NoAttr, FALSE)

MB_REACT ==
    El("a", <<"4", "2">>,
       Attr(<<"/", "u", "f", "i", "/", "r", "e", "a", "c", "t", "i", "o", "n", "/", "p", "r", "o", "f", "i", "l", "e", "/", "b", "r", "o", "w", "s", "e", "r", "/">>),
       FALSE, FALSE, NoAttr, FALSE)

MB_COMMENT ==
    El("a", <<"3", " ", "C", "o", "m", "m", "e", "n", "t", "s">>,
       Attr(<<"/", "c", "o", "m", "m", "e", "n", "t", "/", "r", "e", "p", "l", "i", "e", "s", "/">>),
       FALSE, FALSE, NoAttr, FALSE)

MbasicPool ==
    {MB_AUTHOR,
     MB_HEADER,
     MB_SPAN_HI,
     MB_SPAN,
     MB_P,
     MB_ABBR,
     MB_STORY,
     MB_STORY_NOID,
     MB_BAD,
     MB_REACT,
     MB_COMMENT}

\* The elements an mbasic comment node is made of:
MB_AUTHOR_ABS ==
    El("h3a", <<"B", "o", "b">>,
       Attr(<<"h", "t", "t", "p", "s", ":", "/", "/", "m", "b", "a", "s", "i", "c", ".", "f", "a", "c", "e", "b", "o", "o", "k", ".", "c", "o", "m", "/", "b", "o", "b">>),
       FALSE, FALSE, NoAttr, FALSE)

MB_DIV_OK ==
    El("div", <<"o", "k">>,
       NoAttr,
       FALSE, FALSE, NoAttr, FALSE)

MB_DIV ==
    El("div", <<"N", "i", "c", "e", " ", "p", "h", "o", "t", "o", " ", "t", "h", "e", "r", "e">>,
       NoAttr,
       FALSE, FALSE, NoAttr, FALSE)

MB_DIV_EMPTY ==
    El("div", <<>>,
       NoAttr,
       FALSE, FALSE, NoAttr, FALSE)

MbasicCommentPool ==
    {MB_AUTHOR_ABS,
     MB_DIV_OK,
     MB_DIV,
     MB_DIV_EMPTY,
     MB_SPAN,
     MB_REACT,
     MB_P}

\* The values of the data-ft attribute tried.
DataFts ==
    {NoAttr,
     Attr(<<>>),
     Attr(<<"{", "\"", "t", "o", "p", "_", "l", "e", "v", "e", "l", "_", "p", "o", "s", "t", "_", "i", "d", "\"", ":", "\"", "7", "7", "\"", "}">>)}

\* The values of the data-commentid attribute tried.
DataCommentIds ==
    {NoAttr,
     Attr(<<>>),
     Attr(<<"1", "2", "3">>)}

\* Every sequence of k members of S.
RECURSIVE SeqsOfLen(_, _)
SeqsOfLen(S, k) ==
    IF k = 0 THEN {<<>>}
    ELSE {Append(s, x) : s \in SeqsOfLen(S, k - 1), x \in S}

\* Every sequence of at most n members of S.
SeqsUpTo(S, n) == UNION {SeqsOfLen(S, k) : k \in 0..n}

\* A block of text: a div[dir="auto"], or an element of another tag.
TextBlock(tag, text) == El(tag, text, NoAttr, FALSE, tag = "div", NoAttr, FALSE)

\* The markup a text block can have.
BlocksOf(text) == {TextBlock("div", text), TextBlock("span", text)}

\* "Jane Doe": a bolded profile link, a profile link, a <strong>, a block.
NameBlocks ==
    {EL_AUTHOR, [EL_AUTHOR EXCEPT !.bold = FALSE], TextBlock("strong", EL_AUTHOR.text)}
        \cup BlocksOf(EL_AUTHOR.text)

\* "6h": the text of a link to /posts/, of a link with ?story_fbid, of a
\* link to a profile, or a block.
TimeBlocks ==
    {EL_PERMALINK,
     [EL_STORY_LINK EXCEPT !.text = EL_PERMALINK.text],
     [EL_PROFILE EXCEPT !.text = EL_PERMALINK.text, !.role = FALSE]}
        \cup BlocksOf(EL_PERMALINK.text)

\* The nodes whose text blocks are "Jane Doe", "Check this out!", "Like",
\* "6h", "Comment", with an element labelled "42 reactions".
EndToEndNodes ==
    { <<name, text, like, time, comment, EL_REACTIONS>> :
        name \in NameBlocks, text \in BlocksOf(EL_CONTENT.text),
        like \in BlocksOf(EL_LIKE.text), time \in TimeBlocks,
        comment \in BlocksOf(COMMENT) }

\* Blocks of content: two texts, one of them also with the marker, a short
\* text with the marker, the author's name with the marker, a button.
ContentBlocks ==
    {EL_CONTENT, EL_SECOND, EL_SEE_MORE, EL_NAME_SEE_MORE, EL_LIKE,
     TextBlock("div", EL_CONTENT.text \o <<" ", ELLIPSIS, " ">> \o SEE_MORE)}

\* The nodes of an author and three blocks.
BlockNodes == {<<EL_AUTHOR, b1, b2, b3>> : b1, b2, b3 \in ContentBlocks}

\* Texts of a time link: the relative forms parse_timestamp knows, and a
\* text it does not know.
LinkTimeTexts ==
    { <<"5", "m">>, <<"2", "h">>, <<"3", "d">>, <<"1", "w">>, <<"1", "2", " ", "M">>,
      <<"5", " ", "m", "i", "n", "s">>, <<"2", " ", "h", "r", "s">>,
      <<"J", "u", "s", "t", " ", "n", "o", "w">>,
      <<"Y", "e", "s", "t", "e", "r", "d", "a", "y", " ", "a", "t", " ", "3", ":", "4", "5", " ", "P", "M">>,
      <<"s", "o", "o", "n">> }

\* The nodes of an author, a block of content and a link to /posts/ or with
\* ?story_fbid that has no label and one of the texts.
TimeLinkNodes ==
    { <<EL_AUTHOR, EL_CONTENT, [link EXCEPT !.text = t]>> :
        link \in {EL_PERMALINK, EL_STORY_LINK}, t \in LinkTimeTexts }

\* The nodes of a <strong> that names no author (a label, or no text), a
\* block of content and a profile link.
LabelNodes ==
    { <<TextBlock("strong", label), EL_CONTENT, EL_PROFILE>> :
        label \in {ONLINE_STATUS_INDICATOR, ACTIVE, SPONSORED, <<>>, <<" ">>} }

ModernNodes ==
    SeqsUpTo(ModernPool, MaxElements) \cup EndToEndNodes \cup BlockNodes
        \cup TimeLinkNodes \cup LabelNodes

CommentNodes == SeqsUpTo(CommentPool, MaxElements)

MbasicPostNodes ==
    {MbasicNode(elems, data_ft, NoAttr) :
        elems \in SeqsUpTo(MbasicPool, MaxElements), data_ft \in DataFts}

MbasicCommentNodes ==
    {MbasicNode(elems, NoAttr, data_commentid) :
        elems \in SeqsUpTo(MbasicCommentPool, MaxElements),
        data_commentid \in DataCommentIds}

\* Two blocks that agree on their first 50 characters only.
EL_LONG_A ==
    El("div", <<"T", "h", "i", "s", " ", "i", "s", " ", "a", " ", "r", "a", "t", "h", "e", "r", " ", "l", "o", "n", "g", " ", "p", "o", "s", "t", " ", "t", "e", "x", "t", " ", "t", "h", "a", "t", " ", "k", "e", "e", "p", "s", " ", "g", "o", "i", "n", "g", " ", "o", "n", " ", "a", "n", "d", " ", "o", "n", " ", "A">>,
       NoAttr,
       FALSE, TRUE, NoAttr, FALSE)

EL_LONG_B ==
    El("div", <<"T", "h", "i", "s", " ", "i", "s", " ", "a", " ", "r", "a", "t", "h", "e", "r", " ", "l", "o", "n", "g", " ", "p", "o", "s", "t", " ", "t", "e", "x", "t", " ", "t", "h", "a", "t", " ", "k", "e", "e", "p", "s", " ", "g", "o", "i", "n", "g", " ", "o", "n", " ", "a", "n", "d", " ", "o", "n", " ", "B">>,
       NoAttr,
       FALSE, TRUE, NoAttr, FALSE)

\* The nodes of a scrape.
ScrapeModernPosts ==
    {<<EL_AUTHOR, EL_CONTENT>>, <<EL_PROFILE, EL_CONTENT>>,
     <<EL_AUTHOR, EL_CONTENT, EL_PERMALINK>>,
     <<EL_AUTHOR, EL_LONG_A>>, <<EL_AUTHOR, EL_LONG_B>>}

ScrapeMbasicPosts ==
    {MbasicNode(<<MB_SPAN>>, NoAttr, NoAttr),
     MbasicNode(<<MB_AUTHOR>>, NoAttr, NoAttr),
     MbasicNode(<<MB_SPAN, MB_STORY>>, NoAttr, NoAttr)}

ScrapeModernComments == {<<EL_CONTENT>>, <<EL_PROFILE, EL_CONTENT>>}

ScrapeMbasicComments ==
    {MbasicNode(<<MB_DIV>>, NoAttr, NoAttr),
     MbasicNode(<<MB_DIV>>, NoAttr, Attr(<<"1", "2", "3">>))}

\* The values the str-hash salt of a process takes.
Salts == {1, 2}

\* The addresses of handles: as many as there can be handles alive.
Addresses == 1..MaxScraped

\* The URLs tried: a prefix, a path, a query and a fragment, each from a few.
UrlPrefixes ==
    { <<>>,
      <<"h", "t", "t", "p", "s", ":", "/", "/", "x", ".", "c", "o">>,  \* https://x.co
      <<"h", "t", "t", "p", "s", ":", "/", "/", "[", "x">> }           \* https://[x

UrlPaths ==
    { <<>>,
      <<"/", "p">>,
      POSTS_SLASH \o <<"1", "2">>,
      POSTS_SLASH,
      POSTS_SLASH \o <<"x">>,
      <<"/">> \o PFBID \o <<"A", "1">>,
      POSTS_SLASH \o <<"1", "2", "/">> \o PFBID \o <<"A", "1">>,
      <<"/">> \o PFBID \o <<"A", "1">> \o POSTS_SLASH \o <<"1", "2">> }

UrlQueries ==
    { <<>>,
      <<"?">> \o STORY_FBID \o <<"=", "5">>,
      <<"?">> \o STORY_FBID \o <<"=">>,
      <<"?", "a", "=", "1", "&">> \o STORY_FBID \o <<"=", "5">>,
      <<"?">> \o STORY_FBID \o <<"=", "5", "&">> \o STORY_FBID \o <<"=", "6">>,
      <<"?", "a", "=">> \o POSTS_SLASH \o <<"3", "4">>,
      <<"?", "x">> \o STORY_FBID \o <<"=", "5">>,
      <<"?">> \o STORY_FBID,
      <<"?">> \o STORY_FBID \o <<"=", "5", "+", "6">> }

UrlFragments ==
    { <<>>,
      <<"#">> \o STORY_FBID \o <<"=", "7">>,
      <<"#">> \o POSTS_SLASH \o <<"5", "6">>,
      <<"#">> \o PFBID \o <<"B", "2">> }

Urls ==
    { a \o b \o c \o d :
        a \in UrlPrefixes, b \in UrlPaths, c \in UrlQueries, d \in UrlFragments }

\* ------------------------------------------------------- the state machine
IdleFilter ==
    /\ heap = <<>>
    /\ heap0 = <<>>
    /\ heap1 = <<>>
    /\ comments = <<>>
    /\ filtered = <<>>
    /\ filtered1 = <<>>
    /\ min_reactions = 0
    /\ top_n = 0
    /\ pc = "idle"

IdleUrl ==
    /\ url = <<>>
    /\ url_id = RetNone
    /\ upc = "idle"

IdleExtract ==
    /\ extractor = "none"
    /\ target = <<>>
    /\ failing = 0
    /\ addr = 0
    /\ result = NoRecord
    /\ epc = "idle"

IdleScrape ==
    /\ run = 0
    /\ scraped = <<>>

\* ------------------------------------------------------------ exporter
\* A column value: SQL NULL, or a text.  Python's None binds as NULL, a str
\* as the text.
SqlNull == [has |-> FALSE, val |-> ""]

Sql(v) == [has |-> TRUE, val |-> v]

\* datetime.isoformat(), of a time counted in minutes: a text the time
\* determines.
isoformat(minutes) == ToString(minutes)

\* x.isoformat() if x else None
timestamp_str(time) == IF time.has THEN Sql(isoformat(time.val)) ELSE SqlNull

\* The parameters of INSERT OR REPLACE INTO groups.
GroupRow(group) == [id |-> group.id, name |-> group.name, url |-> group.url]

\* The parameters of INSERT OR REPLACE INTO posts.
PostRow(scrape, post) ==
    [ id                 |-> post.id,
      group_id           |-> scrape.group.id,
      author_name        |-> IF post.author.has THEN Sql(post.author.name) ELSE SqlNull,
      author_profile_url |-> IF post.author.has THEN post.author.profile_url ELSE SqlNull,
      content            |-> post.content,
      timestamp          |-> timestamp_str(post.timestamp),
      reactions_total    |-> post.reactions.total,
      reactions_like     |-> post.reactions.like,
      reactions_love     |-> post.reactions.love,
      reactions_haha     |-> post.reactions.haha,
      reactions_wow      |-> post.reactions.wow,
      reactions_sad      |-> post.reactions.sad,
      reactions_angry    |-> post.reactions.angry,
      comments_count     |-> post.comments_count,
      scraped_at         |-> timestamp_str(scrape.scraped_at) ]

\* The parameters of INSERT OR REPLACE INTO comments.
CommentRow(comment, post_id, parent_id) ==
    [ id                 |-> comment.id,
      post_id            |-> post_id,
      parent_comment_id  |-> parent_id,
      author_name        |-> IF comment.author.has THEN Sql(comment.author.name) ELSE SqlNull,
      author_profile_url |-> IF comment.author.has THEN comment.author.profile_url ELSE SqlNull,
      content            |-> comment.content,
      timestamp          |-> timestamp_str(comment.timestamp),
      reactions_total    |-> comment.reactions.total,
      reactions_like     |-> comment.reactions.like,
      reactions_love     |-> comment.reactions.love,
      reactions_haha     |-> comment.reactions.haha,
      reactions_wow      |-> comment.reactions.wow,
      reactions_sad      |-> comment.reactions.sad,
      reactions_angry    |-> comment.reactions.angry ]

\* INSERT OR IGNORE: a row whose id the table holds already is left as it is.
InsertOrIgnore(table, row) ==
    IF \E r \in table: r.id = row.id THEN table ELSE table \cup {row}

\* INSERT OR REPLACE on a table whose id is the PRIMARY KEY: the row that
\* holds the id is deleted, the new row is inserted.  A table is the set of
\* its rows.
InsertOrReplace(table, row) ==
    {r \in table: r.id # row.id} \cup {row}

RECURSIVE insert_comment(_, _, _, _)
RECURSIVE InsertComments(_, _, _, _)
\* insert_comment(comment, parent_id): the comment's row, then its replies
\* with the comment as their parent.
insert_comment(table, comment, post_id, parent_id) ==
    InsertComments(InsertOrReplace(table, CommentRow(comment, post_id, parent_id)),
                   comment.replies, post_id, Sql(comment.id))

\* for comment in list: insert_comment(comment, parent_id)
InsertComments(table, list, post_id, parent_id) ==
    IF list = <<>> THEN table
    ELSE LET first == insert_comment(table, Head(list), post_id, parent_id)
         IN InsertComments(first, Tail(list), post_id, parent_id)

RECURSIVE InsertPosts(_, _, _)
\* for post in result.posts: the post's row, then its comments.
InsertPosts(d, scrape, posts) ==
    IF posts = <<>> THEN d
    ELSE LET post == Head(posts)
         IN InsertPosts([d EXCEPT
                            !.posts = InsertOrReplace(@, PostRow(scrape, post)),
                            !.comments = InsertComments(@, post.comments, post.id, SqlNull)],
                        scrape, Tail(posts))

\* export_to_sqlite(result, db_path): the tables are created if they do not
\* exist, then the group, the posts and the comments are written and
\* committed.
export_to_sqlite(scrape, d) ==
    InsertPosts([d EXCEPT !.groups = InsertOrReplace(@, GroupRow(scrape.group))],
                scrape, scrape.posts)

\* What parse_reactions_text / parse_timestamp did: nothing yet.
NoOutcome(fn) == [fn |-> fn, raised |-> FALSE, reactions |-> Reactions(0), time |-> NoTime]

IdleText ==
    /\ input = <<>>
    /\ outcome = NoOutcome("idle")

\* A database file that does not exist: no table has a row.
EmptyDb == [groups |-> {}, posts |-> {}, comments |-> {}]

IdleDb ==
    /\ db = EmptyDb
    /\ exports = <<>>

NoProcess == seed = 0 /\ IdleExtract /\ IdleScrape /\ IdleText /\ IdleDb

\* Every comment tree of at most MaxComments comments with totals up to
\* MaxTotal: Reactions.total defaults to 0 and is parsed from \d+ only.
InitFilter ==
    \E n \in 0..MaxComments:
      \E parent \in [1..n -> 0..n]:
        \E tot \in [1..n -> 0..MaxTotal]:
          /\ \A i \in 1..n: parent[i] < i
          /\ heap = [i \in 1..n |->
                        [total |-> tot[i], replies |-> Children(parent, n, i)]]
          /\ comments = Children(parent, n, 0)
    /\ heap0 = heap
    /\ heap1 = heap
    /\ min_reactions = 0
    /\ top_n = 0
    /\ filtered = <<>>
    /\ filtered1 = <<>>
    /\ pc = "built"
    /\ IdleUrl
    /\ NoProcess

\* filter_comments(comments, min_reactions=mn, top_n=tn)
Filter(mn, tn) ==
    /\ pc = "built"
    /\ LET r == filter_comments(heap, comments, mn, tn)
       IN  /\ heap' = r.heap
           /\ heap1' = r.heap
           /\ filtered' = r.ret
           /\ filtered1' = r.ret
    /\ min_reactions' = mn
    /\ top_n' = tn
    /\ pc' = "once"
    /\ UNCHANGED <<heap0, comments, urlVars, seed, extractVars, scrapeVars, textVars, dbVars>>

\* filter_comments applied to its own result with the same thresholds
FilterAgain ==
    /\ pc = "once"
    /\ LET r == filter_comments(heap, filtered, min_reactions, top_n)
       IN  /\ heap' = r.heap
           /\ filtered' = r.ret
    /\ pc' = "twice"
    /\ UNCHANGED <<heap0, comments, min_reactions, top_n, heap1, filtered1, urlVars,
                   seed, extractVars, scrapeVars, textVars, dbVars>>

Thresholds == -1..MaxThreshold

NextFilter ==
    \/ \E mn \in Thresholds, tn \in Thresholds: Filter(mn, tn)
    \/ FilterAgain

SpecFilter == InitFilter /\ [][NextFilter]_vars

InitUrl ==
    /\ url \in Urls
    /\ url_id = RetNone
    /\ upc = "url"
    /\ IdleFilter
    /\ NoProcess

\* url_id = extract_post_id(url)
ExtractPostId ==
    /\ upc = "url"
    /\ url_id' = extract_post_id(url)
    /\ upc' = "resolved"
    /\ UNCHANGED <<url, filterVars, seed, extractVars, scrapeVars, textVars, dbVars>>

NextUrl == ExtractPostId

SpecUrl == InitUrl /\ [][NextUrl]_vars

\* ---- the two text parsers, each called once on one text.
\* Longest text made of the characters below.
MaxTextLen == 4

\* A digit, a zero, the thousands separator, two units, a blank, a letter.
TextChars == {"1", "0", ",", "h", "M", " ", "x"}

\* Texts the extractors meet, and texts that are none of the forms.
NamedTexts ==
    { <<"2", "h">>, <<"3", "d">>, <<"1", "w">>, <<"3", " ", "D">>, <<"1", "2", "W">>,
      <<"5", " ", "m", "i", "n", "s">>, <<"2", " ", "h", "r", "s">>,
      <<"J", "u", "s", "t", " ", "n", "o", "w">>,
      <<"Y", "e", "s", "t", "e", "r", "d", "a", "y", " ", "a", "t", " ", "3", ":", "4", "5", " ", "P", "M">>,
      <<"g", "i", "b", "b", "e", "r", "i", "s", "h">>,
      <<"1", ",", "2", "3", "4", " ", "r", "e", "a", "c", "t", "i", "o", "n", "s">>,
      <<"4", "2", " ", "r", "e", "a", "c", "t", "i", "o", "n", "s">>,
      <<"A", "l", "i", "c", "e", " ", "a", "n", "d", " ", "7", " ", "o", "t", "h", "e", "r", "s">>,
      <<"8", "0", "0", "0", "0", "0", "d">>,
      <<"7", "3", "9", "0", "0", "0", " ", "d">> }

InitText ==
    /\ input \in SeqsUpTo(TextChars, MaxTextLen) \cup NamedTexts
    /\ outcome = NoOutcome("none")
    /\ IdleFilter
    /\ IdleUrl
    /\ seed = 0
    /\ IdleExtract
    /\ IdleScrape
    /\ IdleDb

\* outcome = parse_reactions_text(input)
ParseReactionsText ==
    /\ outcome.fn = "none"
    /\ outcome' = [NoOutcome("parse_reactions_text") EXCEPT
                        !.reactions = Reactions(parse_reactions_text(input))]
    /\ UNCHANGED <<input, filterVars, urlVars, seed, extractVars, scrapeVars, dbVars>>

\* outcome = parse_timestamp(input)
ParseTimestamp ==
    /\ outcome.fn = "none"
    /\ outcome' = [NoOutcome("parse_timestamp") EXCEPT
                        !.raised = parse_timestamp(input, NOW).raises,
                        !.time = parse_timestamp(input, NOW)]
    /\ UNCHANGED <<input, filterVars, urlVars, seed, extractVars, scrapeVars, dbVars>>

NextText ==
    \/ ParseReactionsText
    \/ ParseTimestamp

SpecText == InitText /\ [][NextText]_vars

\* ---- exports into one database file.
\* Most calls of export_to_sqlite on the file.
MaxExports == 2

\* Author(name=..., profile_url=...), and no author.
NoAuthor == [has |-> FALSE, name |-> "", profile_url |-> SqlNull]

Author(name, profile_url) == [has |-> TRUE, name |-> name, profile_url |-> profile_url]

\* The fields of a record as they were scraped the first time (v = 1) and as
\* they were scraped later (v = 2).
AuthorAt(v) == IF v = 1 THEN Author("Jane Doe", Sql("https://fb.com/jane")) ELSE NoAuthor

ContentAt(v) == IF v = 1 THEN "Great post!" ELSE "Great post! (edited)"

TimeAt(v) == IF v = 1 THEN Time(NOW - 360) ELSE NoTime

ReactionsAt(v) == [Reactions(40 + v) EXCEPT !.like = 30, !.love = 10 + v]

\* Comment(id=..., replies=[...])
ExportedComment(id, v, replies) ==
    [ id |-> id, author |-> AuthorAt(v), content |-> ContentAt(v),
      timestamp |-> TimeAt(v), reactions |-> ReactionsAt(v), replies |-> replies ]

\* Post(id=..., comments=[...])
ExportedPost(id, v, list) ==
    [ id |-> id, author |-> AuthorAt(v), content |-> ContentAt(v),
      timestamp |-> TimeAt(v), reactions |-> ReactionsAt(v),
      comments_count |-> Len(list), comments |-> list ]

\* The group and the time of a scrape: a group, the group renamed and scraped
\* later, another group.
ExportedGroups ==
    { [group |-> [id |-> "123", name |-> "Test Group", url |-> "https://fb.com/groups/123"],
       scraped_at |-> Time(NOW)],
      [group |-> [id |-> "123", name |-> "Updated Group Name", url |-> "https://fb.com/groups/123"],
       scraped_at |-> Time(NOW + 60)],
      [group |-> [id |-> "456", name |-> "Empty Group", url |-> "https://fb.com/groups/456"],
       scraped_at |-> NoTime] }

\* The posts of a scrape: none; a post without comments, as scraped first
\* and later; comments at the top level, nested two and three deep; two
\* posts; a comment that moved, changed, or swapped places with its reply;
\* ids that occur twice (the id of a comment is derived from the first
\* characters of its content, see parse_modern_comment).
ExportedPosts ==
    { <<>>,
      <<ExportedPost("post_1", 1, <<>>)>>,
      <<ExportedPost("post_1", 2, <<>>)>>,
      <<ExportedPost("post_1", 1, <<ExportedComment("comment_1", 1, <<>>)>>)>>,
      <<ExportedPost("post_1", 2, <<ExportedComment("comment_1", 2, <<>>)>>)>>,
      <<ExportedPost("post_1", 1,
            <<ExportedComment("comment_1", 1, <<ExportedComment("reply_1", 1, <<>>)>>),
              ExportedComment("comment_2", 1, <<>>)>>)>>,
      <<ExportedPost("post_1", 1,
            <<ExportedComment("comment_1", 1,
                <<ExportedComment("reply_1", 1,
                    <<ExportedComment("comment_2", 1, <<>>)>>)>>)>>)>>,
      <<ExportedPost("post_1", 1, <<ExportedComment("comment_1", 1, <<>>)>>),
        ExportedPost("post_2", 1, <<ExportedComment("comment_2", 1, <<>>)>>)>>,
      <<ExportedPost("post_2", 1, <<ExportedComment("comment_1", 2, <<>>)>>)>>,
      <<ExportedPost("post_1", 2,
            <<ExportedComment("reply_1", 2, <<ExportedComment("comment_1", 2, <<>>)>>)>>)>>,
      <<ExportedPost("post_1", 1, <<ExportedComment("comment_1", 1, <<>>)>>),
        ExportedPost("post_2", 1, <<ExportedComment("comment_1", 2, <<>>)>>)>>,
      <<ExportedPost("post_1", 1,
            <<ExportedComment("comment_1", 1, <<>>),
              ExportedComment("comment_1", 2, <<>>)>>)>>,
      <<ExportedPost("post_1", 1,
            <<ExportedComment("comment_1", 1, <<ExportedComment("comment_1", 2, <<>>)>>)>>)>>,
      <<ExportedPost("post_1", 1, <<>>), ExportedPost("post_1", 2, <<>>)>> }

\* ScrapeResult(group=..., scraped_at=..., posts=[...])
ScrapeResults ==
    { [group |-> g.group, scraped_at |-> g.scraped_at, posts |-> list] :
        g \in ExportedGroups, list \in ExportedPosts }

InitExport ==
    /\ db = EmptyDb
    /\ exports = <<>>
    /\ IdleFilter
    /\ IdleUrl
    /\ seed = 0
    /\ IdleExtract
    /\ IdleScrape
    /\ IdleText

\* export_to_sqlite(scrape, db_path) on the one file.
ExportToSqlite ==
    /\ Len(exports) < MaxExports
    /\ \E scrape \in ScrapeResults:
        /\ db' = export_to_sqlite(scrape, db)
        /\ exports' = Append(exports, scrape)
    /\ UNCHANGED <<filterVars, urlVars, seed, extractVars, scrapeVars, textVars>>

NextExport == ExportToSqlite

SpecExport == InitExport /\ [][NextExport]_vars

\* ---- one extraction.  The process has a salt; one extractor is called on
\* one node, and any one of the calls it makes on the document tree may raise.
InitExtract ==
    /\ seed \in Salts
    /\ extractor = "none"
    /\ target = <<>>
    /\ failing = 0
    /\ addr = 0
    /\ result = NoRecord
    /\ epc = "ready"
    /\ IdleFilter
    /\ IdleUrl
    /\ IdleScrape
    /\ IdleText
    /\ IdleDb

\* The call of the extractor named name on node n at address a, whose try
\* block is body: the k-th call on the document tree raises (k = 0: none does).
Extraction(name, n, a, body) ==
    /\ \E k \in 0..body.calls:
          /\ failing' = k
          /\ result' = TryExcept(body, k)
    /\ extractor' = name
    /\ target' = n
    /\ addr' = a
    /\ epc' = "done"
    /\ UNCHANGED <<filterVars, urlVars, seed, scrapeVars, textVars, dbVars>>

ParseModernPost ==
    /\ epc = "ready"
    /\ \E article \in ModernNodes, a \in Addresses:
          Extraction("parse_modern_post", article, a,
                     modern_post_body(article, seed, a, NOW))

ParseMbasicPost ==
    /\ epc = "ready"
    /\ \E article \in MbasicPostNodes, a \in Addresses:
          Extraction("parse_mbasic_post", article, a,
                     mbasic_post_body(article, seed, a, NOW))

ParseModernComment ==
    /\ epc = "ready"
    /\ \E element \in CommentNodes, a \in Addresses:
          Extraction("parse_modern_comment", element, a,
                     modern_comment_body(element, seed))

ParseMbasicComment ==
    /\ epc = "ready"
    /\ \E comment_div \in MbasicCommentNodes, a \in Addresses:
          Extraction("parse_mbasic_comment", comment_div, a,
                     mbasic_comment_body(comment_div, seed, a))

NextExtract ==
    \/ ParseModernPost
    \/ ParseMbasicPost
    \/ ParseModernComment
    \/ ParseMbasicComment

SpecExtract == InitExtract /\ [][NextExtract]_vars

\* ---- a scrape: nodes are extracted one after the other, their handles
\* alive together (so at different addresses) within a run; the program may
\* be run again, as a new process with a salt of its own.
InitScrape ==
    /\ seed \in Salts
    /\ run = 1
    /\ scraped = <<>>
    /\ IdleFilter
    /\ IdleUrl
    /\ IdleExtract
    /\ IdleText
    /\ IdleDb

\* The addresses of the handles of this run.
Live == {scraped[i].address : i \in {j \in 1..Len(scraped) : scraped[j].run = run}}

Scraped(name, n, a, record) ==
    /\ a \notin Live
    /\ scraped' = Append(scraped, [run |-> run, extractor |-> name, node |-> n,
                                   address |-> a, record |-> record])
    /\ UNCHANGED <<filterVars, urlVars, seed, extractVars, run, textVars, dbVars>>

ScrapeModernPost ==
    /\ Len(scraped) < MaxScraped
    /\ \E article \in ScrapeModernPosts, a \in Addresses:
          Scraped("parse_modern_post", article, a,
                  parse_modern_post(article, 0, seed, a, NOW))

ScrapeMbasicPost ==
    /\ Len(scraped) < MaxScraped
    /\ \E article \in ScrapeMbasicPosts, a \in Addresses:
          Scraped("parse_mbasic_post", article, a,
                  parse_mbasic_post(article, 0, seed, a, NOW))

ScrapeModernComment ==
    /\ Len(scraped) < MaxScraped
    /\ \E element \in ScrapeModernComments, a \in Addresses:
          Scraped("parse_modern_comment", element, a,
                  parse_modern_comment(element, 0, seed))

ScrapeMbasicComment ==
    /\ Len(scraped) < MaxScraped
    /\ \E comment_div \in ScrapeMbasicComments, a \in Addresses:
          Scraped("parse_mbasic_comment", comment_div, a,
                  parse_mbasic_comment(comment_div, 0, seed, a))

\* The program is run again: PYTHONHASHSEED is drawn anew.
Restart ==
    /\ run = 1
    /\ run' = 2
    /\ seed' \in Salts
    /\ UNCHANGED <<filterVars, urlVars, extractVars, scraped, textVars, dbVars>>

NextScrape ==
    \/ ScrapeModernPost
    \/ ScrapeMbasicPost
    \/ ScrapeModernComment
    \/ ScrapeMbasicComment
    \/ Restart

SpecScrape == InitScrape /\ [][NextScrape]_vars

\* ------------------------------------------------ claims: the comment filter
\* The comments of a filtered tree: those of the list and, at every depth,
\* those of the replies of each.
RECURSIVE Survivors(_, _)
Survivors(h, list) ==
    UNION {{list[i]} \cup Survivors(h, h[list[i]].replies) : i \in 1..Len(list)}

PosIn(list, c) == CHOOSE i \in 1..Len(list): list[i] = c

\* One level of a filter_comments result, against the list it was made from.
LevelFiltered(out, orig) ==
    /\ Len(out) <= top_n
    /\ \A i \in 1..Len(out): \E j \in 1..Len(orig): orig[j] = out[i]
    /\ \A i, j \in 1..Len(out):
         i < j => /\ heap[out[i]].total >= heap[out[j]].total
                  /\ heap[out[i]].total = heap[out[j]].total
                        => PosIn(orig, out[i]) < PosIn(orig, out[j])
    /\ min_reactions > 0 =>
         \A i \in 1..Len(out): heap[out[i]].total >= min_reactions

\* C1: with top_n = k > 0, every level of the result (the returned list and
\* the replies of every surviving comment, at any depth) has at most k
\* comments, in non-increasing order of total, equal totals in their original
\* relative order, and each at least min_reactions when min_reactions > 0.
C1_EveryLevelTopN ==
    (pc = "once" /\ top_n > 0) =>
        /\ LevelFiltered(filtered, comments)
        /\ \A c \in Survivors(heap, filtered):
             LevelFiltered(heap[c].replies, heap0[c].replies)

\* A call that reordered its top level and kept a comment whose replies
\* were cut.
C1_Witness ==
    /\ pc = "once"
    /\ top_n > 0
    /\ \E i \in 1..Len(filtered): filtered[i] # comments[i]
    /\ \E c \in Survivors(heap, filtered):
         Len(heap[c].replies) < Len(heap0[c].replies)

\* C2: filter_comments applied to its own result with the same thresholds
\* returns that result: the same comments in the same order, with the same
\* replies at every depth.
C2_Idempotent ==
    pc = "twice" =>
        /\ filtered = filtered1
        /\ \A c \in Survivors(heap1, filtered1):
             heap[c].replies = heap1[c].replies

\* A second call after a first call that sorted equal totals and cut replies.
C2_Witness ==
    /\ pc = "twice"
    /\ top_n > 0
    /\ heap1 # heap0
    /\ \E i, j \in 1..Len(filtered1):
         i < j /\ heap[filtered1[i]].total = heap[filtered1[j]].total

\* C3: after filter_comments returns, every comment of the input tree still
\* has the replies it had before the call.
C3_InputUnmodified ==
    pc = "once" => \A c \in DOMAIN heap0: heap[c].replies = heap0[c].replies

\* C4: filter_comments(list, 0, 0) returns the list unchanged, at the top
\* level and in every replies list.
C4_NoOpThresholds ==
    (pc = "once" /\ min_reactions = 0 /\ top_n = 0) =>
        /\ filtered = comments
        /\ \A c \in DOMAIN heap0: heap[c].replies = heap0[c].replies

\* A (0, 0) call on a list of several comments, one of them with replies.
C4_Witness ==
    /\ pc = "once"
    /\ min_reactions = 0
    /\ top_n = 0
    /\ Len(comments) >= 2
    /\ \E c \in DOMAIN heap0: heap0[c].replies # <<>>

\* ------------------------------------------------ claims: the record extractors
IsRecord(r) == r.tag \in {"post", "comment"}

\* C5: every Post or Comment that any of the four extractors returns has
\* content of at least 5 characters; an extraction whose content is empty or
\* shorter returns no record.
C5_ContentGate ==
    (epc = "done" /\ IsRecord(result)) => Len(result.content) >= 5

\* parse_modern_post alone does keep the gate (parser.py:313-314).
ModernPostContentGate ==
    (epc = "done" /\ extractor = "parse_modern_post" /\ IsRecord(result))
        => Len(result.content) >= 5

ModernPostContentGateReached ==
    /\ epc = "done"
    /\ extractor = "parse_modern_post"
    /\ failing = 0
    /\ result = NoRecord
    /\ Len(ContentFromBlocks(target, UNKNOWN)) \in 1..4

\* C6: when a call on the document tree raises at any point of an
\* extraction, the extractor returns None: no record, and no exception
\* reaches the caller.
C6_FailureSwallowed ==
    (epc = "done" /\ failing >= 1) => result = NoRecord

\* A call raised on a node which yields a record when none does.
C6_Witness ==
    /\ epc = "done"
    /\ extractor = "parse_modern_comment"
    /\ failing >= 1
    /\ result = NoRecord
    /\ IsRecord(parse_modern_comment(target, 0, seed))

\* C7: every Post and Comment returned has a non-empty id, whichever source
\* the id came from, and also when every link and attribute is absent or
\* empty.
C7_IdNonEmpty ==
    (epc = "done" /\ IsRecord(result)) => result.id # <<>>

\* A comment whose data-commentid attribute is the empty string.
C7_Witness ==
    /\ epc = "done"
    /\ extractor = "parse_mbasic_comment"
    /\ target.data_commentid = Attr(<<>>)
    /\ IsRecord(result)
    /\ StartsWith(result.id, COMMENT_PREFIX)

\* ------------------------------------------------------------ claims: a scrape
\* The extractions of run r that gave a Post.
PostsOfRun(r) ==
    {i \in 1..Len(scraped) : scraped[i].run = r /\ scraped[i].record.tag = "post"}

\* C8: any two distinct post nodes extracted in the same scrape that both
\* yield a Post yield different ids.
C8_PostIdsUnique ==
    \A r \in {1, 2}: \A i, j \in PostsOfRun(r):
        i # j => scraped[i].record.id # scraped[j].record.id

\* No link or attribute gave the id: it is a synthesized one.
IsSynthetic(r) ==
    \/ r.tag = "post" /\ StartsWith(r.id, POST_PREFIX)
    \/ r.tag = "comment" /\ StartsWith(r.id, COMMENT_PREFIX)

\* C9: two extractions, in one run or in two, of nodes of the same kind whose
\* ids are synthesized and whose contents agree on their first 50
\* characters, give the same id.
C9_SyntheticDeterministic ==
    \A i, j \in 1..Len(scraped):
        LET a == scraped[i].record
            b == scraped[j].record
        IN  (/\ IsSynthetic(a)
             /\ IsSynthetic(b)
             /\ a.tag = b.tag
             /\ Take(a.content, 50) = Take(b.content, 50))
                => a.id = b.id

\* Within one run the hashed ids are a function of the content's first 50
\* characters (posts) or 30 (comments).
SyntheticDeterministicInRun ==
    \A i, j \in 1..Len(scraped):
        LET a == scraped[i].record
            b == scraped[j].record
        IN  (/\ scraped[i].run = scraped[j].run
             /\ IsSynthetic(a)
             /\ IsSynthetic(b)
             /\ a.tag = b.tag
             /\ a.content # <<>>
             /\ Take(a.content, 30) = Take(b.content, 30)
             /\ Take(a.content, 50) = Take(b.content, 50))
                => a.id = b.id

\* ------------------------------------------- claims: the identifier resolver
\* The query of a URL as text: what lies between the first "?" and the
\* fragment.
QueryText(u) ==
    LET h == FindChar(u, {"#"})
        noFragment == IF h = 0 THEN u ELSE Take(u, h - 1)
        q == FindChar(noFragment, {"?"})
    IN  IF q = 0 THEN <<>> ELSE Drop(noFragment, q)

\* The resolution order of the claim: the story_fbid query parameter (one with
\* a value: a blank one counts as absent), then the digits after /posts/,
\* then the first pfbid token, then null.
ResolutionOrder(u) ==
    LET story == FirstValue(parse_qs(QueryText(u)), STORY_FBID)
    IN  IF story.tag = "str" THEN story
        ELSE IF SearchPostsDigits(u).tag = "str" THEN SearchPostsDigits(u)
        ELSE IF SearchPfbid(u).tag = "str" THEN SearchPfbid(u)
        ELSE RetNone

\* C10: extract_post_id resolves in a fixed priority order: the value of the
\* story_fbid query parameter, otherwise the digits after /posts/, otherwise
\* the first pfbid[alphanumeric]+ token, otherwise null.
C10_PriorityOrder ==
    upc = "resolved" => url_id = ResolutionOrder(url)

\* The same order on the URLs urlparse accepts, where the call returns.
PriorityOrderWhenParsed ==
    (upc = "resolved" /\ ~urlparse(url).raises) => url_id = ResolutionOrder(url)

\* A URL with all three sources resolved to its story_fbid.
PriorityOrderReached ==
    /\ upc = "resolved"
    /\ url_id = RetStr(<<"5">>)
    /\ SearchPostsDigits(url).tag = "str"
    /\ SearchPfbid(url).tag = "str"

\* C11: extract_post_id never raises: on every string, the URLs urlparse
\* rejects as malformed included, the call returns an id or null.
C11_NeverRaises ==
    upc = "resolved" => url_id.tag \in {"none", "str"}

\* ------------------------------------------------ claims: the text parsers
\* The number a run of decimal digits writes.
ValueOf(ds) ==
    LET digit(c) == CHOOSE d \in 0..9: DIGITS[d + 1] = c
        v[k \in 0..Len(ds)] == IF k = 0 THEN 0 ELSE 10 * v[k - 1] + digit(ds[k])
    IN  v[Len(ds)]

\* The value of the first run of digits of t, 0 when t holds no digit.
FirstRunValue(t) ==
    IF \A i \in 1..Len(t): t[i] \notin Digits THEN 0
    ELSE LET i == CHOOSE a \in 1..Len(t):
                    t[a] \in Digits /\ \A b \in 1..(a - 1): t[b] \notin Digits
             j == CHOOSE a \in i..Len(t):
                    /\ \A b \in i..a: t[b] \in Digits
                    /\ a = Len(t) \/ t[a + 1] \notin Digits
         IN  ValueOf(SubSeq(t, i, j))

\* t with every comma taken out.
RECURSIVE WithoutCommas(_)
WithoutCommas(t) ==
    IF t = <<>> THEN <<>>
    ELSE IF Head(t) = "," THEN WithoutCommas(Tail(t))
    ELSE <<Head(t)>> \o WithoutCommas(Tail(t))

UnitMinutes(c) ==
    IF c \in {"m", "M"} THEN 1
    ELSE IF c \in {"h", "H"} THEN 60
    ELSE IF c \in {"d", "D"} THEN 1440
    ELSE 10080

\* The number of digits t starts with.
DigitsAhead(t) == Cardinality({k \in 1..Len(t): \A i \in 1..k: t[i] \in Digits})

\* <n><optional spaces><unit>, unit one of m h d w in either case.
IsRelativeForm(t) ==
    /\ DigitsAhead(t) >= 1
    /\ DigitsAhead(t) < Len(t)
    /\ t[Len(t)] \in {"m", "M", "h", "H", "d", "D", "w", "W"}
    /\ \A i \in (DigitsAhead(t) + 1)..(Len(t) - 1): t[i] = " "

\* One of the forms of parse_timestamp: the relative short forms, the long
\* forms <n>min..., <n>hr..., "Just now", "Yesterday...".  (No text tried is
\* in one of the absolute date formats.)
IsRecognizedForm(t) ==
    LET s == Lower(Strip(t))
        unit == LStrip(Drop(s, DigitsAhead(s)))
    IN  \/ /\ DigitsAhead(s) >= 1
           /\ \/ unit \in {<<"m">>, <<"h">>, <<"d">>, <<"w">>}
              \/ StartsWith(unit, MIN)
              \/ StartsWith(unit, HR)
        \/ StartsWith(s, JUST_NOW)
        \/ StartsWith(s, YESTERDAY)

\* C13: parse_timestamp returns now minus n units for every text
\* <n><optional spaces><unit>, unit m, h, d or w in either case, and returns
\* null, without raising, for the empty text, a blank text and every text
\* that is none of the recognized forms.
C13_RelativeForms ==
    outcome.fn = "parse_timestamp" =>
        /\ ~outcome.raised
        /\ IsRelativeForm(input) =>
             outcome.time = Time(NOW - ValueOf(Take(input, DigitsAhead(input)))
                                        * UnitMinutes(input[Len(input)]))
        /\ ~IsRecognizedForm(input) => outcome.time = NoTime

\* The same, for the texts whose time lies within datetime's range; the call
\* raises on the others only.
RelativeFormsInRange ==
    outcome.fn = "parse_timestamp" =>
        /\ (IsRelativeForm(input) /\ ~outcome.raised) =>
             outcome.time = Time(NOW - ValueOf(Take(input, DigitsAhead(input)))
                                        * UnitMinutes(input[Len(input)]))
        /\ ~IsRecognizedForm(input) => (outcome.time = NoTime /\ ~outcome.raised)
        /\ outcome.raised =>
             /\ IsRecognizedForm(input)
             /\ ValueOf(Take(Strip(input), DigitsAhead(Strip(input)))) > NOW \div 10080

\* "3 D" was parsed, to three days before now.
RelativeFormsReached ==
    /\ outcome.fn = "parse_timestamp"
    /\ input = <<"3", " ", "D">>
    /\ outcome.time = Time(NOW - 4320)

\* ------------------------------------ claims: the modern post extractor
\* The feed-noise markers.
FeedNoiseMarkers == {PEOPLE_YOU_MAY_KNOW, SUGGESTED_FOR_YOU, GROUPS_YOU_MIGHT_LIKE}

\* A marker lies within the first 100 characters of the node's text.
MarkerAhead(node) ==
    \E m \in FeedNoiseMarkers: \E i \in 1..(101 - Len(m)): MatchAt(InnerText(node), i, m)

\* The author resolved for the node, truncated at the editorial markers, is a
\* marker.
MarkerAsAuthor(node) == CleanAuthor(ModernAuthor(node).name) \in FeedNoiseMarkers

\* C14: parse_modern_post returns null whenever the resolved author name is a
\* feed-noise marker or a marker occurs within the first 100 characters of
\* the node's text, whatever content, links and labels the node carries.
C14_FeedNoiseSkipped ==
    (/\ epc = "done"
     /\ extractor = "parse_modern_post"
     /\ MarkerAsAuthor(target) \/ MarkerAhead(target))
        => result = NoRecord

\* A node with an author and a block of content that holds a marker, every
\* call on it succeeding.
C14_Witness ==
    /\ epc = "done"
    /\ extractor = "parse_modern_post"
    /\ failing = 0
    /\ target = <<EL_AUTHOR, EL_SUGGESTED>>
    /\ ~MarkerAsAuthor(target)
    /\ Len(ContentFromBlocks(target, EL_AUTHOR.text)) >= 5
    /\ result = NoRecord

\* ------------------------------------------------------ claims: the exporter
Tables == {"groups", "posts", "comments"}

RECURSIVE CommentsOf(_, _, _)
\* The comments of a list at every depth, each with the post that owns it
\* and its direct parent (NULL at the top level).
CommentsOf(list, post_id, parent_id) ==
    UNION { {[comment |-> list[i], post_id |-> post_id, parent_id |-> parent_id]}
                \cup CommentsOf(list[i].replies, post_id, Sql(list[i].id))
            : i \in 1..Len(list) }

\* The same, over all posts of a result.
CommentsOfResult(scrape) ==
    UNION { CommentsOf(scrape.posts[i].comments, scrape.posts[i].id, SqlNull)
            : i \in 1..Len(scrape.posts) }

\* The rows a result holds for a table.
RowsGiven(t, scrape) ==
    CASE t = "groups" -> {GroupRow(scrape.group)}
      [] t = "posts" -> {PostRow(scrape, scrape.posts[i]) : i \in 1..Len(scrape.posts)}
      [] t = "comments" -> {CommentRow(o.comment, o.post_id, o.parent_id)
                                : o \in CommentsOfResult(scrape)}

IdsGiven(t, scrape) == {r.id : r \in RowsGiven(t, scrape)}

\* The most recent export that contained the id.
LastExportWith(t, id) ==
    CHOOSE k \in 1..Len(exports):
        /\ id \in IdsGiven(t, exports[k])
        /\ \A j \in (k + 1)..Len(exports): id \notin IdsGiven(t, exports[j])

\* C15: after any sequence of export_to_sqlite calls on one database file,
\* each of the tables groups, posts and comments holds exactly one row per
\* distinct id ever exported, and the row carries the values the most recent
\* export containing the id gave for it.
C15_Upsert ==
    \A t \in Tables:
        /\ \A r1, r2 \in db[t]: r1.id = r2.id => r1 = r2
        /\ {r.id : r \in db[t]} = UNION {IdsGiven(t, exports[k]) : k \in 1..Len(exports)}
        /\ \A r \in db[t]: r \in RowsGiven(t, exports[LastExportWith(t, r.id)])

\* A post with a comment was exported, then exported again into another
\* group with other values: one row each, with the later values.
C15_Witness ==
    /\ Len(exports) = 2
    /\ exports[1].group.name = "Test Group"
    /\ exports[2].group.name = "Updated Group Name"
    /\ exports[1].posts = <<ExportedPost("post_1", 1, <<ExportedComment("comment_1", 1, <<>>)>>)>>
    /\ exports[2].posts = <<ExportedPost("post_1", 2, <<ExportedComment("comment_1", 2, <<>>)>>)>>
    /\ db.groups = {[id |-> "123", name |-> "Updated Group Name", url |-> "https://fb.com/groups/123"]}
    /\ Cardinality(db.posts) = 1
    /\ \A r \in db.posts: r.content = ContentAt(2) /\ r.author_name = SqlNull
    /\ Cardinality(db.comments) = 1
    /\ \A r \in db.comments: r.content = ContentAt(2) /\ r.reactions_total = 42

RECURSIVE NumComments(_)
\* How many comments a list holds, replies at every depth included.
NumComments(list) ==
    IF list = <<>> THEN 0
    ELSE 1 + NumComments(Head(list).replies) + NumComments(Tail(list))

RECURSIVE NumCommentsOfPosts(_)
NumCommentsOfPosts(posts) ==
    IF posts = <<>> THEN 0
    ELSE NumComments(Head(posts).comments) + NumCommentsOfPosts(Tail(posts))

\* One row per comment, with its owner and its parent.
OneRowPerComment(scrape) ==
    /\ Cardinality(db.comments) = NumCommentsOfPosts(scrape.posts)
    /\ \A o \in CommentsOfResult(scrape):
        \E r \in db.comments:
            /\ r.id = o.comment.id
            /\ r.post_id = o.post_id
            /\ r.parent_comment_id = o.parent_id

\* C16: after one export into an empty database the comments table has
\* exactly one row per comment of the result, at every depth and over all
\* posts; the row's post_id is the id of the owning post, its
\* parent_comment_id the id of the direct parent, NULL at the top level.
C16_OneRowPerComment ==
    Len(exports) = 1 => OneRowPerComment(exports[1])

\* The same, for a result whose comments have ids that differ from each
\* other.
OneRowPerCommentOfDistinctIds ==
    (/\ Len(exports) = 1
     /\ Cardinality(IdsGiven("comments", exports[1])) = NumCommentsOfPosts(exports[1].posts))
        => OneRowPerComment(exports[1])

\* A reply three deep was exported with its post and its parent.
NestedRepliesExported ==
    /\ Len(exports) = 1
    /\ NumCommentsOfPosts(exports[1].posts) = 3
    /\ \E r \in db.comments:
        /\ r.id = "comment_2"
        /\ r.post_id = "post_1"
        /\ r.parent_comment_id = Sql("reply_1")

\* ------------------------------------------- claims: the end-to-end example
\* What the example expects of the Post: the author, the content, the
\* reactions and the time, six hours before now.
EndToEndPost(post) ==
    /\ post.tag = "post"
    /\ post.author.name = EL_AUTHOR.text
    /\ post.content = EL_CONTENT.text
    /\ post.reactions.total = 42
    /\ post.timestamp = Time(NOW - 360)

\* parse_modern_post returned from a node of the example, no call failing.
EndToEndParsed ==
    /\ epc = "done"
    /\ extractor = "parse_modern_post"
    /\ failing = 0
    /\ target \in EndToEndNodes

\* The "6h" of the node is the text of a link to /posts/ or with ?story_fbid.
TimeIsPermalinkText ==
    target[4] \in {EL_PERMALINK, [EL_STORY_LINK EXCEPT !.text = EL_PERMALINK.text]}

\* C17 as stated: given a node whose text blocks are "Jane Doe", "Check this
\* out!", "Like", "6h", "Comment" and which has an element labelled "42
\* reactions", parse_modern_post returns a Post with author.name "Jane Doe",
\* content "Check this out!", reactions.total 42 and the timestamp now minus
\* 6 hours.
C17_EndToEndAsStated ==
    EndToEndParsed => EndToEndPost(result)

\* C17: the same, for the nodes whose "6h" is the text of a permalink-shaped
\* link (href holding /posts/ or ?story_fbid); for the other nodes the Post
\* has the author, the content and the reactions, and no timestamp.
C17_EndToEnd ==
    EndToEndParsed =>
        IF TimeIsPermalinkText THEN EndToEndPost(result)
        ELSE EndToEndPost([result EXCEPT !.timestamp = Time(NOW - 360)])
                /\ result.timestamp = NoTime

\* The node of five div[dir="auto"] blocks but for the "6h", a link with
\* ?story_fbid, gave the Post of the example.
C17_Witness ==
    /\ EndToEndParsed
    /\ target = <<TextBlock("div", EL_AUTHOR.text), EL_CONTENT, EL_LIKE,
                  [EL_STORY_LINK EXCEPT !.text = EL_PERMALINK.text],
                  TextBlock("div", COMMENT), EL_REACTIONS>>
    /\ EndToEndPost(result)

\* ------------------------------------ claims: the comment filter, level by level
\* The comments of a list.
Range(list) == {list[i] : i \in 1..Len(list)}

\* The comments of a list that meet the threshold.
Eligible(orig) == {c \in Range(orig): heap0[c].total >= min_reactions}

\* c comes before d in the stable descending order of the list.
Outranks(orig, c, d) ==
    \/ heap0[c].total > heap0[d].total
    \/ heap0[c].total = heap0[d].total /\ PosIn(orig, c) < PosIn(orig, d)

\* out is what the two steps keep of orig: the first top_n of the eligible
\* comments in stable descending order, or all of them in original order.
LevelKept(out, orig) ==
    /\ \A i, j \in 1..Len(out): i # j => out[i] # out[j]
    /\ Range(out) \subseteq Eligible(orig)
    /\ Len(out) = IF top_n > 0 /\ top_n < Cardinality(Eligible(orig))
                  THEN top_n ELSE Cardinality(Eligible(orig))
    /\ \A i, j \in 1..Len(out):
         i < j => IF top_n > 0 THEN Outranks(orig, out[i], out[j])
                  ELSE PosIn(orig, out[i]) < PosIn(orig, out[j])
    /\ \A d \in Eligible(orig) \ Range(out), k \in Range(out):
         /\ heap0[d].total <= heap0[k].total
         /\ Outranks(orig, k, d)

\* C18: at every level of the result (the returned list and the replies of
\* every surviving comment) the kept comments are exactly the first top_n
\* (all when top_n = 0) of the comments with total >= min_reactions, in
\* stable descending order of total when top_n > 0 and in original order when
\* top_n = 0: no dropped comment that meets the threshold has a larger total
\* than a kept one, none is duplicated or invented.
C18_ThresholdThenTopN ==
    (pc = "once" /\ top_n >= 0) =>
        /\ LevelKept(filtered, comments)
        /\ \A c \in Survivors(heap, filtered):
             LevelKept(heap[c].replies, heap0[c].replies)

\* A call whose threshold dropped a comment of the top level and whose cut
\* dropped another that met the threshold.
C18_Witness ==
    /\ pc = "once"
    /\ min_reactions > 0
    /\ top_n > 0
    /\ Len(filtered) = top_n
    /\ \E d \in Range(comments): heap0[d].total < min_reactions
    /\ \E d \in Eligible(comments): d \notin Range(filtered)

\* The comments of the input tree that are replies, and the parent of each.
Replies == {c \in DOMAIN heap0: \E q \in DOMAIN heap0: c \in Range(heap0[q].replies)}

ParentOf(c) == CHOOSE q \in DOMAIN heap0: c \in Range(heap0[q].replies)

\* The two steps, applied to list, keep c.
KeptAmong(c, list) ==
    /\ c \in Eligible(list)
    /\ top_n > 0 =>
         Cardinality({d \in Eligible(list): Outranks(list, d, c)}) < top_n

\* C19 as stated: whether a reply is in the output is decided only by the
\* threshold and top-N steps applied to the reply among its own siblings,
\* not by the parent's total or by the parent having been dropped.
C19_ReplyIndependentOfParent ==
    pc = "once" =>
        \A c \in Replies:
            c \in Survivors(heap, filtered) <=> KeptAmong(c, heap0[ParentOf(c)].replies)

\* C19: a reply is in the output exactly when its parent is in the output
\* and the threshold and top-N steps keep the reply among its own siblings;
\* the parent's total does not enter.
C19_ReplyUnderSurvivingParent ==
    pc = "once" =>
        \A c \in Replies:
            c \in Survivors(heap, filtered) <=>
                /\ ParentOf(c) \in Survivors(heap, filtered)
                /\ KeptAmong(c, heap0[ParentOf(c)].replies)

\* A reply was kept under a parent with a smaller total, in a call that
\* dropped another comment.
C19_Witness ==
    /\ pc = "once"
    /\ min_reactions > 0
    /\ \E c \in Replies:
        /\ c \in Survivors(heap, filtered)
        /\ heap0[ParentOf(c)].total < heap0[c].total
    /\ \E d \in DOMAIN heap0: d \notin Survivors(heap, filtered)

\* A reply that the two steps keep among its siblings went with its
\* dropped parent.
ReplyWentWithParent ==
    /\ pc = "once"
    /\ \E c \in Replies:
        /\ c \notin Survivors(heap, filtered)
        /\ ParentOf(c) \notin Survivors(heap, filtered)
        /\ KeptAmong(c, heap0[ParentOf(c)].replies)

\* ------------------------------------------ claims: the content of a modern post
\* parse_modern_post returned a Post whose content came from the
\* div[dir="auto"] blocks.
ContentTakenFromBlocks ==
    /\ epc = "done"
    /\ extractor = "parse_modern_post"
    /\ result.tag = "post"
    /\ ContentFromBlocks(target, result.author.name) # <<>>

\* The texts of the node's div[dir="auto"] blocks, in document order.
BlockTexts(node) == Map(Select(node, IsDirAutoDiv), LAMBDA e: Strip(e.text))

\* The place of the first block whose cleaned text is part, 0 for none.
FirstSeen(node, part) ==
    FirstTrue(Map(BlockTexts(node), LAMBDA t: Cleaned(t) = part))

\* The author name, a UI-chrome string, or a bare relative-timestamp token.
IsExcludedText(text, author_name) ==
    \/ text = author_name
    \/ text \in {LIKE, COMMENT, SHARE, REPLY, <<MIDDLE_DOT>>}
    \/ IsBareRelativeToken(text)

\* The emitted content is made of at most two cleaned blocks, distinct, in
\* first-seen order.
TwoDistinctBlocksInOrder(node, parts) ==
    /\ Len(parts) \in {1, 2}
    /\ \A k \in 1..Len(parts): FirstSeen(node, parts[k]) > 0
    /\ Len(parts) = 2 =>
        /\ parts[1] # parts[2]
        /\ FirstSeen(node, parts[1]) < FirstSeen(node, parts[2])

\* C20: when parse_modern_post takes its content from the div[dir="auto"]
\* blocks, the content is the newline-join of at most two pairwise distinct
\* blocks in first-seen document order, and no block of the content, as it is
\* after the "See more" marker was stripped, equals the author name, a
\* UI-chrome string or a bare relative-timestamp token.
C20_ContentBlocks ==
    ContentTakenFromBlocks =>
        /\ TwoDistinctBlocksInOrder(target, Split(result.content, "\n"))
        /\ \A k \in 1..Len(Split(result.content, "\n")):
             ~IsExcludedText(Split(result.content, "\n")[k], result.author.name)

\* The same, the exclusions being those of the blocks as they are before the
\* marker is stripped.
ContentBlocksExcludedBeforeStripping ==
    ContentTakenFromBlocks =>
        /\ TwoDistinctBlocksInOrder(target, Split(result.content, "\n"))
        /\ \A k \in 1..Len(Split(result.content, "\n")):
             ~IsExcludedText(BlockTexts(target)[FirstSeen(target, Split(result.content, "\n")[k])],
                             result.author.name)

\* Two blocks were joined, the second of three being the first again with
\* the marker.
TwoBlocksJoined ==
    /\ ContentTakenFromBlocks
    /\ target = <<EL_AUTHOR, EL_CONTENT,
                  TextBlock("div", EL_CONTENT.text \o <<" ", ELLIPSIS, " ">> \o SEE_MORE),
                  EL_SECOND>>
    /\ result.content = EL_CONTENT.text \o <<"\n">> \o EL_SECOND.text

\* The author's name with the marker became the content.
AuthorNameAsContent ==
    /\ ContentTakenFromBlocks
    /\ target = <<EL_AUTHOR, EL_NAME_SEE_MORE>>
    /\ result.content = result.author.name

\* ------------------------------------------ claims: the time of a modern post
\* parse_modern_post returned a Post, no call failing.
ModernPostReturned ==
    /\ epc = "done"
    /\ extractor = "parse_modern_post"
    /\ failing = 0
    /\ result.tag = "post"

\* The permalink-shaped links of the node that have no label and whose text
\* parse_timestamp parses.
ParsableTimeLinks(node) ==
    {i \in 1..Len(node):
        /\ node[i].tag = "a"
        /\ node[i].href.has
        /\ Contains(node[i].href.val, POSTS_SLASH) \/ Contains(node[i].href.val, STORY_QUERY)
        /\ ~node[i].aria.has
        /\ parse_timestamp(node[i].text, NOW).has}

\* C21: if a permalink-shaped link of the node has no accessible label and
\* its visible text is a text parse_timestamp recognizes, the Post that
\* parse_modern_post returns has a timestamp: the time-unit-token gate
\* rejects no text that parse_timestamp would parse.
C21_GateRejectsNoParsableText ==
    (ModernPostReturned /\ ParsableTimeLinks(target) # {})
        => result.timestamp.has

\* The same, for the links whose text holds one of the gate's tokens.
GatePassedTextIsParsed ==
    (/\ ModernPostReturned
     /\ \E i \in ParsableTimeLinks(target): HasTimeUnitToken(Strip(target[i].text)))
        => result.timestamp.has

\* The link text "5 mins" gave the Post its time, five minutes before now.
MinutesLinkParsed ==
    /\ ModernPostReturned
    /\ target = <<EL_AUTHOR, EL_CONTENT,
                  [EL_STORY_LINK EXCEPT !.text = <<"5", " ", "m", "i", "n", "s">>]>>
    /\ result.timestamp = Time(NOW - 5)

\* ------------------------------------------ claims: the id of an mbasic post
\* parse_mbasic_post returned a Post.
MbasicPostReturned ==
    /\ epc = "done"
    /\ extractor = "parse_mbasic_post"
    /\ result.tag = "post"

\* The identifier the node's data-ft attribute carries, <<>> for none.
MetadataId(node) ==
    IF node.data_ft.has THEN SearchTopLevelPostId(node.data_ft.val) ELSE <<>>

\* The identifier the node's first story/post link yields, <<>> for none.
LinkId(node) ==
    IF MbasicPostLinkId(node.elems).id.tag = "str"
    THEN MbasicPostLinkId(node.elems).id.val ELSE <<>>

\* C22: the identifier of the data-ft attribute is consulted before the
\* links: when the attribute carries one the Post's id is that one, also
\* when a story/post link would yield an id; the content-hash fallback is
\* used only when both fail.
C22_MetadataBeforeLink ==
    MbasicPostReturned =>
        /\ MetadataId(target) # <<>> => result.id = MetadataId(target)
        /\ (MetadataId(target) = <<>> /\ LinkId(target) # <<>>)
                => result.id = LinkId(target)
        /\ StartsWith(result.id, POST_PREFIX)
                => (MetadataId(target) = <<>> /\ LinkId(target) = <<>>)

\* The order of the code: the link, then the attribute, then the fallback.
LinkBeforeMetadata ==
    MbasicPostReturned =>
        /\ LinkId(target) # <<>> => result.id = LinkId(target)
        /\ (LinkId(target) = <<>> /\ MetadataId(target) # <<>>)
                => result.id = MetadataId(target)
        /\ StartsWith(result.id, POST_PREFIX)
                <=> (MetadataId(target) = <<>> /\ LinkId(target) = <<>>)

\* A node with a story link and the attribute got the id of the link.
LinkIdPreferred ==
    /\ MbasicPostReturned
    /\ LinkId(target) = <<"5">>
    /\ MetadataId(target) = <<"7", "7">>
    /\ result.id = <<"5">>

\* A node without a link that yields an id got the id of the attribute.
MetadataIdUsed ==
    /\ MbasicPostReturned
    /\ MB_STORY_NOID \in Range(target.elems)
    /\ result.id = <<"7", "7">>

\* ---------------------------------------- claims: the author of a modern post
\* parse_modern_post returned a Post.
ModernPostEmitted ==
    /\ epc = "done"
    /\ extractor = "parse_modern_post"
    /\ result.tag = "post"

\* The first <strong> of the node has no text.
FirstStrongEmpty(node) ==
    /\ Select(node, IsStrong) # <<>>
    /\ Strip(Select(node, IsStrong)[1].text) = <<>>

\* The first <strong> of the node holds a known non-author label.
FirstStrongIsLabel(node) ==
    /\ Select(node, IsStrong) # <<>>
    /\ Strip(Select(node, IsStrong)[1].text) \in {ONLINE_STATUS_INDICATOR, ACTIVE, SPONSORED}

\* C23: every Post parse_modern_post returns has a non-empty author name;
\* when the bolded element has no text, or the resolved name is a known
\* non-author label, and no later heuristic resolves a name, the name is
\* "Unknown"; the later heuristics are tried after an empty first result.
C23_AuthorNonEmpty ==
    ModernPostEmitted =>
        /\ result.author.name # <<>>
        /\ FirstStrongIsLabel(target) => result.author.name = UNKNOWN
        /\ target \in LabelNodes /\ FirstStrongEmpty(target)
                => result.author.name = EL_PROFILE.text

\* What holds: the name is empty exactly when the first <strong> has no
\* text, and a label gives "Unknown".
AuthorEmptyFromEmptyStrong ==
    ModernPostEmitted =>
        /\ result.author.name = <<>> <=> FirstStrongEmpty(target)
        /\ FirstStrongIsLabel(target) => result.author.name = UNKNOWN

\* A <strong> reading "Sponsored" gave the author "Unknown".
LabelGaveUnknown ==
    /\ ModernPostEmitted
    /\ target = <<TextBlock("strong", SPONSORED), EL_CONTENT, EL_PROFILE>>
    /\ result.author.name = UNKNOWN

====
